---- MODULE Spec2Model ----
(***************************************************************************)
(* Ingestion / dedup engine and run orchestrator of the Italian property   *)
(* listings pipeline (scrapers/ingest.ts, scrapers/runner.ts and the       *)
(* extraction strategies' index-page handling).                            *)
(*                                                                         *)
(* Nullable SQL / JavaScript values are encoded as options: NULL is the    *)
(* empty tuple and a present value v is the one-element tuple <<v>>.       *)
(* A row of the properties table is keyed by listing_url (UNIQUE), so the  *)
(* table is a function from the stored URLs to rows; the row id used by    *)
(* removeStaleListings is identified with that key.                        *)
(***************************************************************************)
EXTENDS Integers, Sequences, FiniteSets, TLC

VARIABLES
    properties,   \* properties table: stored listing_url -> row
    sources,      \* sources table: sequence of [id, name] records
    now,          \* database clock (CURRENT_TIMESTAMP)
    call,         \* the last storage-level call: operation, arguments, return value
    registry,     \* SOURCES / SCRAPER_REGISTRY of the running build
    run,          \* runIngestion's activation record (options, loop position, stats)
    scraper,      \* a strategy's scrape(): activation record and the fetches it made
    enrichment    \* the enrichment script's position, its row and the features at hand

vars == <<properties, sources, now, call, registry, run, scraper, enrichment>>

----------------------------------------------------------------------------
(* Bounds *)

MaxTime == 1      \* latest reading of the database clock
MaxBatch == 2     \* longest listing batch handed to ingestProperties
MaxRuns == 2      \* number of runIngestion invocations in a behaviour

----------------------------------------------------------------------------
(* Value encoding *)

NULL == <<>>
Some(v) == <<v>>

\* SQL COALESCE(a, b)
COALESCE(a, b) == IF a # NULL THEN a ELSE b

\* JavaScript `x || d` on an optional string: null, undefined and "" are
\* falsy
OrElse(x, d) == IF x = NULL \/ x = Some("") THEN d ELSE x

\* JavaScript `x || d` on an optional Date: only null and undefined are falsy
OrElseDate(x, d) == IF x = NULL THEN d ELSE x

\* JavaScript `x ?? null`
Nullish(x) == x

\* Canonical listing URLs, in the order the sites list them
UrlOrder == <<"A", "B">>
Urls == { UrlOrder[k] : k \in 1..Len(UrlOrder) }
UrlPos(u) == CHOOSE k \in 1..Len(UrlOrder) : UrlOrder[k] = u
SourceIds == {1, 2}
RegionIds == {"tuscany", "calabria"}

\* The source+region pairs listings are scraped for (one agency per region);
\* removeStaleListings is called for every pair of SourceIds \X RegionIds
Pairs == {<<1, "tuscany">>, <<2, "calabria">>}

\* The optional part of a PropertyInsert, as a strategy produces it
FullDetails ==
    [ price_eur |-> 179000,
      address |-> Some("Via Roma 1"), bedrooms |-> Some(3), bathrooms |-> Some(2),
      living_area_sqm |-> Some(130), image_urls |-> <<"img1", "img2">>,
      description_it |-> Some("villa con giardino"),
      description_en |-> Some("villa with garden"),
      sale_status |-> Some("sold"),
      has_garden |-> Some(TRUE), has_terrace |-> Some(FALSE),
      has_balcony |-> Some(TRUE), has_parking |-> Some(TRUE),
      has_garage |-> Some(FALSE), source_updated_at |-> Some(1) ]

SparseDetails ==
    [ price_eur |-> 150000,
      address |-> NULL, bedrooms |-> NULL, bathrooms |-> NULL,
      living_area_sqm |-> NULL, image_urls |-> <<>>,
      description_it |-> NULL, description_en |-> NULL,
      sale_status |-> NULL,
      has_garden |-> NULL, has_terrace |-> NULL,
      has_balcony |-> NULL, has_parking |-> NULL,
      has_garage |-> NULL, source_updated_at |-> NULL ]

Details == {FullDetails, SparseDetails}

\* City and property type as the strategies derive them from the page: here
\* each region has one city and each source lists one type of property
CityOf(r) == IF r = "tuscany" THEN "Lucignano" ELSE "Tropea"
TypeOf(s) == IF s = 1 THEN "villa" ELSE "apartment"

MkListing(u, s, r, d) ==
    [ listing_url |-> u, source_id |-> s, region_id |-> r, price_eur |-> d.price_eur,
      city |-> CityOf(r), property_type |-> TypeOf(s),
      address |-> d.address, bedrooms |-> d.bedrooms, bathrooms |-> d.bathrooms,
      living_area_sqm |-> d.living_area_sqm, image_urls |-> d.image_urls,
      description_it |-> d.description_it, description_en |-> d.description_en,
      sale_status |-> d.sale_status,
      has_garden |-> d.has_garden, has_terrace |-> d.has_terrace,
      has_balcony |-> d.has_balcony, has_parking |-> d.has_parking,
      has_garage |-> d.has_garage, source_updated_at |-> d.source_updated_at ]

\* PropertyInsert values of one source+region
ListingsOf(s, r) == { MkListing(u, s, r, d) : u \in Urls, d \in Details }

SeqsUpTo(S, n) == UNION { [1..k -> S] : k \in 0..n }

\* Batches a strategy can hand over: scrape(regionId, sourceId, _) stamps
\* every listing with the same region and source
BatchesOf(s, r) == SeqsUpTo(ListingsOf(s, r), MaxBatch)

\* Outcome of the storage queries made for one listing
Outcomes == {"ok", "writeError", "queryError"}

----------------------------------------------------------------------------
(* scrapers/ingest.ts *)

\* listingExists that never finds the row
listingExists_NeverFound(db, listingUrl) == FALSE

\* listingExists: SELECT EXISTS(... WHERE listing_url = $1)
listingExists(db, listingUrl) == listingUrl \in DOMAIN db

\* The parameter array of insertProperty ($1..$20)
InsertParams(property) ==
    [ property EXCEPT
        !.address = OrElse(property.address, NULL),
        !.description_en = OrElse(property.description_en, NULL),
        !.sale_status = OrElse(property.sale_status, Some("available")),
        !.has_garden = Nullish(property.has_garden),
        !.has_terrace = Nullish(property.has_terrace),
        !.has_balcony = Nullish(property.has_balcony),
        !.has_parking = Nullish(property.has_parking),
        !.has_garage = Nullish(property.has_garage),
        !.source_updated_at = OrElseDate(property.source_updated_at, NULL) ]

\* The row INSERT creates when listing_url is not stored yet; is_archived,
\* archived_at and updated_at take their column defaults (created_at, which
\* nothing reads or writes afterwards, is left out)
InsertedRow(x, t) ==
    [ region_id |-> x.region_id, source_id |-> x.source_id, city |-> x.city,
      address |-> x.address, price_eur |-> x.price_eur, bedrooms |-> x.bedrooms,
      bathrooms |-> x.bathrooms, living_area_sqm |-> x.living_area_sqm,
      property_type |-> x.property_type, image_urls |-> x.image_urls,
      description_it |-> x.description_it, description_en |-> x.description_en,
      sale_status |-> x.sale_status,
      has_garden |-> x.has_garden, has_terrace |-> x.has_terrace,
      has_balcony |-> x.has_balcony, has_parking |-> x.has_parking,
      has_garage |-> x.has_garage, source_updated_at |-> x.source_updated_at,
      last_seen_at |-> t, updated_at |-> t,
      is_archived |-> FALSE, archived_at |-> NULL ]

\* The update with price_eur merged like the optional columns and
\* last_seen_at left alone
OnConflictUpdate_PriceMerged(old, x, t) ==
    [ old EXCEPT
        !.price_eur = old.price_eur,
        !.address = COALESCE(x.address, old.address),
        !.bedrooms = COALESCE(x.bedrooms, old.bedrooms),
        !.bathrooms = COALESCE(x.bathrooms, old.bathrooms),
        !.living_area_sqm = COALESCE(x.living_area_sqm, old.living_area_sqm),
        !.image_urls = x.image_urls,
        !.description_it = x.description_it,
        !.description_en = COALESCE(x.description_en, old.description_en),
        !.sale_status = COALESCE(x.sale_status, old.sale_status),
        !.has_garden = COALESCE(x.has_garden, old.has_garden),
        !.has_terrace = COALESCE(x.has_terrace, old.has_terrace),
        !.has_balcony = COALESCE(x.has_balcony, old.has_balcony),
        !.has_parking = COALESCE(x.has_parking, old.has_parking),
        !.has_garage = COALESCE(x.has_garage, old.has_garage),
        !.source_updated_at = COALESCE(x.source_updated_at, old.source_updated_at),
        !.updated_at = t ]

\* The update that also takes the attribution columns of the new values
OnConflictUpdate_Reattributed(old, x, t) ==
    [ old EXCEPT
        !.region_id = x.region_id,
        !.source_id = x.source_id,
        !.city = x.city,
        !.property_type = x.property_type,
        !.price_eur = x.price_eur,
        !.address = COALESCE(x.address, old.address),
        !.bedrooms = COALESCE(x.bedrooms, old.bedrooms),
        !.bathrooms = COALESCE(x.bathrooms, old.bathrooms),
        !.living_area_sqm = COALESCE(x.living_area_sqm, old.living_area_sqm),
        !.image_urls = x.image_urls,
        !.description_it = x.description_it,
        !.description_en = COALESCE(x.description_en, old.description_en),
        !.sale_status = COALESCE(x.sale_status, old.sale_status),
        !.has_garden = COALESCE(x.has_garden, old.has_garden),
        !.has_terrace = COALESCE(x.has_terrace, old.has_terrace),
        !.has_balcony = COALESCE(x.has_balcony, old.has_balcony),
        !.has_parking = COALESCE(x.has_parking, old.has_parking),
        !.has_garage = COALESCE(x.has_garage, old.has_garage),
        !.source_updated_at = COALESCE(x.source_updated_at, old.source_updated_at),
        !.last_seen_at = t,
        !.updated_at = t ]

\* ON CONFLICT (listing_url) DO UPDATE SET ...
OnConflictUpdate(old, x, t) ==
    [ old EXCEPT
        !.price_eur = x.price_eur,
        !.address = COALESCE(x.address, old.address),
        !.bedrooms = COALESCE(x.bedrooms, old.bedrooms),
        !.bathrooms = COALESCE(x.bathrooms, old.bathrooms),
        !.living_area_sqm = COALESCE(x.living_area_sqm, old.living_area_sqm),
        !.image_urls = x.image_urls,
        !.description_it = x.description_it,
        !.description_en = COALESCE(x.description_en, old.description_en),
        !.sale_status = COALESCE(x.sale_status, old.sale_status),
        !.has_garden = COALESCE(x.has_garden, old.has_garden),
        !.has_terrace = COALESCE(x.has_terrace, old.has_terrace),
        !.has_balcony = COALESCE(x.has_balcony, old.has_balcony),
        !.has_parking = COALESCE(x.has_parking, old.has_parking),
        !.has_garage = COALESCE(x.has_garage, old.has_garage),
        !.source_updated_at = COALESCE(x.source_updated_at, old.source_updated_at),
        !.last_seen_at = t,
        !.updated_at = t ]

\* insertProperty: the upsert; a failing query is caught and yields null
\* (inserted = FALSE) with the table unchanged
insertProperty(db, property, t, outcome) ==
    IF outcome = "writeError"
    THEN [db |-> db, inserted |-> FALSE]
    ELSE LET x == InsertParams(property)
             u == property.listing_url
         IN  [db |-> IF u \in DOMAIN db
                     THEN [db EXCEPT ![u] = OnConflictUpdate(db[u], x, t)]
                     ELSE db @@ (u :> InsertedRow(x, t)),
              inserted |-> TRUE]

EmptyResult(n) ==
    [totalScraped |-> n, newListings |-> 0, updatedListings |-> 0, errors |-> 0]

\* One iteration of the for-loop of ingestProperties, for `property`.  A
\* failing listingExists query is not caught: the call rejects (threw).
IngestOne(db, property, res, t, outcome) ==
    IF outcome = "queryError"
    THEN [db |-> db, result |-> res, threw |-> TRUE]
    ELSE LET exists == listingExists(db, property.listing_url)
             ins == insertProperty(db, property, t, outcome)
         IN  [db |-> ins.db,
              result |-> IF ins.inserted
                         THEN IF exists
                              THEN [res EXCEPT !.updatedListings = @ + 1]
                              ELSE [res EXCEPT !.newListings = @ + 1]
                         ELSE [res EXCEPT !.errors = @ + 1],
              threw |-> FALSE]

\* ingestProperties from position i on, given the outcome of each
\* listing's queries
RECURSIVE IngestLoop(_, _, _, _, _, _)
IngestLoop(props, outcomes, i, db, res, t) ==
    IF i > Len(props)
    THEN [db |-> db, result |-> res, threw |-> FALSE]
    ELSE LET one == IngestOne(db, props[i], res, t, outcomes[i])
         IN  IF one.threw
             THEN one
             ELSE IngestLoop(props, outcomes, i + 1, one.db, one.result, t)

ingestProperties(db, props, outcomes, t) ==
    IngestLoop(props, outcomes, 1, db, EmptyResult(Len(props)), t)

\* The selection without the scrapedUrls filter
StaleListings_IgnoreScraped(db, sourceId, regionId, scrapedUrls) ==
    { u \in DOMAIN db :
        /\ db[u].source_id = sourceId
        /\ db[u].region_id = regionId
        /\ db[u].is_archived = FALSE }

\* The selection without the region_id condition
StaleListings_AnyRegion(db, sourceId, regionId, scrapedUrls) ==
    { u \in DOMAIN db :
        /\ db[u].source_id = sourceId
        /\ db[u].is_archived = FALSE
        /\ u \notin scrapedUrls }

\* removeStaleListings: SELECT the active rows of the pair, filter the ones
\* not scraped, UPDATE them by id
StaleListings(db, sourceId, regionId, scrapedUrls) ==
    { u \in DOMAIN db :
        /\ db[u].source_id = sourceId
        /\ db[u].region_id = regionId
        /\ db[u].is_archived = FALSE
        /\ u \notin scrapedUrls }

\* The archival that sets the flag and leaves archived_at
removeStaleListings_FlagOnly(db, sourceId, regionId, scrapedUrls, t) ==
    LET stale == StaleListings(db, sourceId, regionId, scrapedUrls)
    IN  [db |-> [u \in DOMAIN db |->
                    IF u \in stale
                    THEN [db[u] EXCEPT !.is_archived = TRUE]
                    ELSE db[u]],
         count |-> Cardinality(stale)]

removeStaleListings(db, sourceId, regionId, scrapedUrls, t) ==
    LET stale == StaleListings(db, sourceId, regionId, scrapedUrls)
    IN  [db |-> [u \in DOMAIN db |->
                    IF u \in stale
                    THEN [db[u] EXCEPT !.is_archived = TRUE, !.archived_at = Some(t)]
                    ELSE db[u]],
         count |-> Cardinality(stale)]

\* The restore that clears the flag and leaves archived_at
restoreArchivedListing_KeepsTimestamp(db, listingUrl) ==
    LET hit == listingUrl \in DOMAIN db /\ db[listingUrl].is_archived = TRUE
    IN  [db |-> IF hit
                THEN [db EXCEPT ![listingUrl] = [@ EXCEPT !.is_archived = FALSE]]
                ELSE db,
         restored |-> hit]

\* restoreArchivedListing: UPDATE ... WHERE listing_url = $1 AND is_archived
restoreArchivedListing(db, listingUrl) ==
    LET hit == listingUrl \in DOMAIN db /\ db[listingUrl].is_archived = TRUE
    IN  [db |-> IF hit
                THEN [db EXCEPT ![listingUrl] =
                        [@ EXCEPT !.is_archived = FALSE, !.archived_at = NULL]]
                ELSE db,
         restored |-> hit]

----------------------------------------------------------------------------
(* Storage-level operations, callable in any order.  ingestProperties   *)
(* advances one listing per step (it suspends at every query); the other  *)
(* two are single statements.                                             *)

NoCall == [op |-> "none", status |-> "returned"]
IdleRun == [pc |-> "idle", runs |-> 0]
NoRegistry == << >>
NoScrape == [pc |-> "idle"]

NoEnrichment == [pc |-> "idle"]

Rows(db) == Cardinality(DOMAIN db)

Init ==
    /\ properties = << >>
    /\ sources = << >>
    /\ now = 0
    /\ call = NoCall
    /\ registry = NoRegistry
    /\ run = IdleRun
    /\ scraper = NoScrape
    /\ enrichment = NoEnrichment

\* CURRENT_TIMESTAMP advances
Tick ==
    /\ now < MaxTime
    /\ now' = now + 1
    /\ UNCHANGED <<properties, sources, call, registry, run, scraper, enrichment>>

\* Activation record of ingestProperties(props, _, _): loop position i and
\* the result record.  round and rowsBefore tell a call that repeats the
\* previous call's batch from a first call, and the row count at its entry.
IngestFrame(props, round, db) ==
    [op |-> "ingestProperties", status |-> "running",
     properties |-> props, i |-> 1, result |-> EmptyResult(Len(props)),
     round |-> round, rowsBefore |-> Rows(db)]

\* ingestProperties is entered with a batch
IngestBegin ==
    /\ call.status # "running"
    /\ \E pair \in Pairs :
       \E props \in BatchesOf(pair[1], pair[2]) :
          call' = IngestFrame(props, 1, properties)
    /\ UNCHANGED <<properties, sources, now, registry, run, scraper, enrichment>>

\* One iteration of the loop
IngestListing ==
    /\ call.op = "ingestProperties" /\ call.status = "running"
    /\ call.i <= Len(call.properties)
    /\ \E outcome \in Outcomes :
          LET one == IngestOne(properties, call.properties[call.i],
                               call.result, now, outcome)
          IN  /\ properties' = one.db
              /\ call' = IF one.threw
                         THEN [op |-> "ingestProperties", status |-> "threw"]
                         ELSE [call EXCEPT !.i = @ + 1, !.result = one.result]
    /\ UNCHANGED <<sources, now, registry, run, scraper, enrichment>>

\* The loop is over: return result
IngestReturn ==
    /\ call.op = "ingestProperties" /\ call.status = "running"
    /\ call.i > Len(call.properties)
    /\ call' = [op |-> "ingestProperties", status |-> "returned",
                result |-> call.result, round |-> call.round,
                rowsBefore |-> call.rowsBefore]
    /\ UNCHANGED <<properties, sources, now, registry, run, scraper, enrichment>>

\* The loop is over, no row failed, and the caller runs ingestProperties
\* again at once with the identical batch
IngestAgain ==
    /\ call.op = "ingestProperties" /\ call.status = "running"
    /\ call.i > Len(call.properties)
    /\ call.round = 1
    /\ call.result.errors = 0
    /\ call' = IngestFrame(call.properties, 2, properties)
    /\ UNCHANGED <<properties, sources, now, registry, run, scraper, enrichment>>

\* removeStaleListings(sourceId, regionId, scrapedUrls)
RemoveStaleListingsCall(sourceId, regionId, scrapedUrls) ==
    LET out == removeStaleListings(properties, sourceId, regionId, scrapedUrls, now)
    IN  /\ call.status # "running"
        /\ properties' = out.db
        /\ call' = [op |-> "removeStaleListings", status |-> "returned",
                    count |-> out.count]
        /\ UNCHANGED <<sources, now, registry, run, scraper, enrichment>>

RemoveStaleListings ==
    \E s \in SourceIds, r \in RegionIds, scraped \in SUBSET Urls :
        RemoveStaleListingsCall(s, r, scraped)

\* restoreArchivedListing(listingUrl)
RestoreArchivedListingCall(listingUrl) ==
    LET out == restoreArchivedListing(properties, listingUrl)
    IN  /\ call.status # "running"
        /\ properties' = out.db
        /\ call' = [op |-> "restoreArchivedListing", status |-> "returned",
                    restored |-> out.restored]
        /\ UNCHANGED <<sources, now, registry, run, scraper, enrichment>>

RestoreArchivedListing ==
    \E u \in Urls : RestoreArchivedListingCall(u)

Next ==
    \/ Tick
    \/ IngestBegin
    \/ IngestListing
    \/ IngestReturn
    \/ IngestAgain
    \/ RemoveStaleListings
    \/ RestoreArchivedListing

Spec == Init /\ [][Next]_vars

\* The batch side alone: ingestProperties calls, one after the other or
\* repeated, with the clock advancing between and during them
IngestNext ==
    \/ Tick
    \/ IngestBegin
    \/ IngestListing
    \/ IngestReturn
    \/ IngestAgain

IngestSpec == Init /\ [][IngestNext]_vars

\* insertProperty(property), called on its own
InsertPropertyCall(property, outcome) ==
    LET out == insertProperty(properties, property, now, outcome)
    IN  /\ call.status # "running"
        /\ properties' = out.db
        /\ call' = [op |-> "insertProperty", status |-> "returned",
                    inserted |-> out.inserted]
        /\ UNCHANGED <<sources, now, registry, run, scraper, enrichment>>

InsertProperty ==
    \E pair \in Pairs :
    \E property \in ListingsOf(pair[1], pair[2]) :
    \E outcome \in {"ok", "writeError"} :
        InsertPropertyCall(property, outcome)

\* The single-statement operations on the properties table: listings are
\* upserted one at a time, archived and restored
StoreNext ==
    \/ Tick
    \/ InsertProperty
    \/ RemoveStaleListings
    \/ RestoreArchivedListing

StoreSpec == Init /\ [][StoreNext]_vars

----------------------------------------------------------------------------
(* lib/admin.ts: listings an agency enters through the admin portal, stored *)
(* in the same properties table                                            *)

\* `admin://${sourceId}/${Date.now()}`, by source id and clock reading
AdminUrlTable ==
    << <<"admin://1/0", "admin://1/1", "admin://1/2">>,
       <<"admin://2/0", "admin://2/1", "admin://2/2">> >>
AdminUrl(sourceId, timestamp) == AdminUrlTable[sourceId][timestamp + 1]
AdminUrls ==
    { AdminUrlTable[s][k] : s \in SourceIds, k \in 1..Len(AdminUrlTable[1]) }

\* AdminPropertyFormData: the region is chosen in the form, the optional
\* fields are left empty
AdminForms ==
    { [ region_slug |-> r, city |-> CityOf(r), property_type |-> "villa",
        price_eur |-> 150000 ] : r \in RegionIds }

\* createProperty: INSERT without ON CONFLICT; the columns it does not name
\* take their defaults.  null when the query fails (the URL is taken).
createProperty(db, sourceId, data, t) ==
    LET listingUrl == AdminUrl(sourceId, t)
        row == [ region_id |-> data.region_slug, source_id |-> sourceId,
                 city |-> data.city, address |-> NULL,
                 price_eur |-> data.price_eur, bedrooms |-> NULL,
                 bathrooms |-> NULL, living_area_sqm |-> NULL,
                 property_type |-> data.property_type, image_urls |-> << >>,
                 description_it |-> NULL, description_en |-> NULL,
                 sale_status |-> Some("available"),
                 has_garden |-> NULL, has_terrace |-> NULL,
                 has_balcony |-> NULL, has_parking |-> NULL,
                 has_garage |-> NULL, source_updated_at |-> NULL,
                 last_seen_at |-> t, updated_at |-> t,
                 is_archived |-> FALSE, archived_at |-> NULL ]
    IN  IF listingUrl \in DOMAIN db
        THEN [db |-> db, created |-> FALSE]
        ELSE [db |-> db @@ (listingUrl :> row), created |-> TRUE]

\* getPropertiesBySource: the rows of the admin dashboard
getPropertiesBySource(db, sourceId) ==
    { u \in DOMAIN db : db[u].source_id = sourceId /\ db[u].is_archived = FALSE }

CreateProperty ==
    /\ call.status # "running"
    /\ \E sourceId \in SourceIds, data \in AdminForms :
          LET out == createProperty(properties, sourceId, data, now)
          IN  /\ properties' = out.db
              /\ call' = [op |-> "createProperty", status |-> "returned",
                          created |-> out.created]
    /\ UNCHANGED <<sources, now, registry, run, scraper, enrichment>>

\* The admin portal at work on the table while the runs archive what their
\* scrapes did not return
AdminNext ==
    \/ Tick
    \/ CreateProperty
    \/ RemoveStaleListings

AdminSpec == Init /\ [][AdminNext]_vars

----------------------------------------------------------------------------
(* scrapers/config.ts, scrapers/registry.ts *)

\* Regions seeded into the regions table; a region's id is written as its slug
StoredRegions == {"tuscany", "calabria", "puglia"}

\* Insertion order of the SOURCES object
SourceOrder == <<"vittori", "gesticasa">>

\* SOURCES.vittori and its registration; on a failing index page the Vittori
\* strategy logs and returns []
VittoriConfig ==
    [ name |-> "Vittori Servizi Immobiliari", regions |-> <<"tuscany">>,
      isActive |-> TRUE, registered |-> TRUE, onIndexFailure |-> "returnsEmpty" ]

\* SOURCES.gesticasa of a build that configures it: two regions, the first
\* without a stored region record; the Gesticasa strategy lets a failing
\* index fetch propagate
GesticasaConfig(active, registered) ==
    [ name |-> "Gesticasa Immobiliare", regions |-> <<"sicilia", "calabria">>,
      isActive |-> active, registered |-> registered, onIndexFailure |-> "throws" ]

\* The builds considered: SOURCES as in config.ts, and SOURCES extended by a
\* second agency
RegistryInputs ==
    { ("vittori" :> VittoriConfig) }
    \cup { ("vittori" :> VittoriConfig) @@ ("gesticasa" :> GesticasaConfig(TRUE, g)) :
             g \in BOOLEAN }

\* IngestionOptions.sources / .regions as the CLI passes them (<<>>: not given)
SourceFilters == { <<>>, <<"casaamola">>, <<"gesticasa", "vittori">> }
RegionFilters == { <<>>, <<"calabria">> }

InSeq(x, sq) == \E k \in 1..Len(sq) : sq[k] = x

\* getActiveSources
getActiveSources(reg) ==
    SelectSeq(SourceOrder, LAMBDA id : id \in DOMAIN reg /\ reg[id].isActive)

\* hasScraperFor
hasScraperFor(reg, id) == reg[id].registered

\* runIngestion, "Get sources to run" and the registered-scraper filter
SourcesToRun(reg, opts) ==
    LET chosen == IF Len(opts.sources) > 0
                  THEN SelectSeq(opts.sources,
                                 LAMBDA id : id \in DOMAIN reg /\ reg[id].isActive)
                  ELSE getActiveSources(reg)
    IN  SelectSeq(chosen, LAMBDA id : hasScraperFor(reg, id))

\* runIngestion, "Determine regions to scrape for this source"
RegionsToScrape(reg, opts, id) ==
    IF Len(opts.regions) > 0
    THEN SelectSeq(reg[id].regions, LAMBDA r : InSeq(r, opts.regions))
    ELSE reg[id].regions

----------------------------------------------------------------------------
(* scrapers/ingest.ts: sources and regions *)

\* getOrCreateSource: the first row with that name, else a new row
SourceRows(srcs, name) == { k \in 1..Len(srcs) : srcs[k].name = name }

getOrCreateSource(srcs, name) ==
    IF SourceRows(srcs, name) # {}
    THEN [sources |-> srcs,
          source |-> srcs[CHOOSE k \in SourceRows(srcs, name) :
                             \A j \in SourceRows(srcs, name) : k <= j]]
    ELSE LET row == [id |-> Len(srcs) + 1, name |-> name]
         IN  [sources |-> Append(srcs, row), source |-> row]

\* getRegionBySlug
getRegionBySlug(slug) == IF slug \in StoredRegions THEN Some(slug) ELSE NULL

\* Concurrent runs (a scheduled run and a manually triggered one) against
\* the same database.  Each run calls getOrCreateSource for the sources it
\* was asked for, in order; the function suspends at its SELECT and at its
\* INSERT, and the sources table has no constraint on name.
RunIds == 1..MaxRuns
SourceNames == <<VittoriConfig.name, GesticasaConfig(TRUE, TRUE).name>>
SourceSelections == {<<1>>, <<2>>, <<1, 2>>}

NotStarted == [pc |-> "idle"]

\* The runs start
SourcesBegin ==
    /\ call.status # "running"
    /\ call' = [op |-> "getOrCreateSource", status |-> "running",
                runs |-> [p \in RunIds |-> NotStarted]]
    /\ UNCHANGED <<properties, sources, now, registry, run, scraper, enrichment>>

\* Run p is started with a selection of sources
SourcesRun(p) ==
    /\ call.op = "getOrCreateSource" /\ call.status = "running"
    /\ call.runs[p].pc = "idle"
    /\ \E selection \in SourceSelections :
           call' = [call EXCEPT !.runs[p] =
                       [pc |-> "select", selection |-> selection, k |-> 1]]
    /\ UNCHANGED <<properties, sources, now, registry, run, scraper, enrichment>>

\* getOrCreateSource of run p: SELECT * FROM sources WHERE name = $1, and
\* the return of the existing row
SourcesSelect(p) ==
    /\ call.op = "getOrCreateSource" /\ call.status = "running"
    /\ call.runs[p].pc = "select"
    /\ call.runs[p].k <= Len(call.runs[p].selection)
    /\ LET name == SourceNames[call.runs[p].selection[call.runs[p].k]]
       IN  call' = IF SourceRows(sources, name) # {}
                   THEN [call EXCEPT !.runs[p].k = @ + 1]
                   ELSE [call EXCEPT !.runs[p].pc = "insert"]
    /\ UNCHANGED <<properties, sources, now, registry, run, scraper, enrichment>>

\* getOrCreateSource of run p: INSERT INTO sources ... RETURNING *
SourcesInsert(p) ==
    /\ call.op = "getOrCreateSource" /\ call.status = "running"
    /\ call.runs[p].pc = "insert"
    /\ LET name == SourceNames[call.runs[p].selection[call.runs[p].k]]
       IN  sources' = Append(sources, [id |-> Len(sources) + 1, name |-> name])
    /\ call' = [call EXCEPT !.runs[p].pc = "select", !.runs[p].k = @ + 1]
    /\ UNCHANGED <<properties, now, registry, run, scraper, enrichment>>

SourcesNext ==
    \/ SourcesBegin
    \/ \E p \in RunIds : SourcesRun(p)
    \/ \E p \in RunIds : SourcesSelect(p)
    \/ \E p \in RunIds : SourcesInsert(p)

SourcesSpec == Init /\ [][SourcesNext]_vars

----------------------------------------------------------------------------
(* scrapers/sources: price parsing and the scrape() of the paginated       *)
(* (Vittori) and single-page (Casa Amola) strategies.  A text is a         *)
(* sequence of one-character strings.                                      *)

Digits == <<"0", "1", "2", "3", "4", "5", "6", "7", "8", "9">>
IsDigit(c) == \E k \in 1..10 : Digits[k] = c
DigitVal(c) == (CHOOSE k \in 1..10 : Digits[k] = c) - 1

\* JavaScript parseInt(text, 10) on a text without sign or leading blanks:
\* the value of the longest prefix of digits, NaN (NULL) when it is empty
RECURSIVE DigitPrefixValue(_, _, _)
DigitPrefixValue(text, k, acc) ==
    IF k > Len(text) \/ ~IsDigit(text[k])
    THEN acc
    ELSE DigitPrefixValue(text, k + 1, acc * 10 + DigitVal(text[k]))

parseInt(text) ==
    IF Len(text) = 0 \/ ~IsDigit(text[1])
    THEN NULL
    ELSE Some(DigitPrefixValue(text, 1, 0))

\* BaseScraper.parsePrice: drop the euro sign and white space, drop the
\* thousands dots, parseInt
parsePrice(priceText) ==
    LET cleaned == SelectSeq(priceText, LAMBDA c : c \notin {"€", " "})
        numericString == SelectSeq(cleaned, LAMBDA c : c # ".")
    IN  parseInt(numericString)

\* Price texts of index-page cards
Price179000 == <<"1", "7", "9", ".", "0", "0", "0", " ", "€">>
Price150000 == <<"€", " ", "1", "5", "0", ".", "0", "0", "0">>
Price1000 == <<"1", ".", "0", "0", "0", " ", "€">>
Price999 == <<"9", "9", "9", " ", "€">>
PriceOnRequest == <<"T", "r", "a", "t", "t", "a", "t", "i", "v", "a">>

\* What differs between the strategies: pagination, the page cap of their
\* configuration, the price test of the normalization (`price === null`
\* against `price === null || price < 1000`), whether scrape() catches a
\* failing index fetch, and whether the index page carries the listing's
\* data (Gesticasa's index gives property ids only; price, city and
\* images come from the detail page)
VittoriStrategy ==
    [ id |-> "vittori", paginated |-> TRUE, maxPages |-> 20, priceFloor |-> NULL,
      catchesIndex |-> TRUE, indexData |-> TRUE ]
CasaAmolaStrategy ==
    [ id |-> "casaamola", paginated |-> FALSE, maxPages |-> 1,
      priceFloor |-> Some(1000), catchesIndex |-> TRUE, indexData |-> TRUE ]
GesticasaStrategy ==
    [ id |-> "gesticasa", paginated |-> FALSE, maxPages |-> 1,
      priceFloor |-> Some(1000), catchesIndex |-> FALSE, indexData |-> FALSE ]
\* Professione Immobiliare reads a REST API and one archive page per city
ProfessioneStrategy ==
    [ id |-> "professioneimmobiliare", paginated |-> FALSE, maxPages |-> 1,
      priceFloor |-> Some(1000), catchesIndex |-> FALSE, indexData |-> TRUE ]
Strategies ==
    {VittoriStrategy, CasaAmolaStrategy, GesticasaStrategy, ProfessioneStrategy}

\* The price test of normalizeListingsWithDetails: TRUE when the raw
\* listing is skipped
SkipsPrice_NoFloor(price, floor) == price = NULL

SkipsPrice(price, floor) ==
    price = NULL \/ (floor # NULL /\ price[1] < floor[1])

\* Largest number of listing cards on one index page
MaxPageListings == 2

\* Highest page number the pagination links of page 1 can show
PageLinks == {1, 2}

\* options.maxPages of the run that executes the scrape (NULL: not given)
PageOverrides == {NULL, Some(1)}

\* extractListings(html): the cards of one index page, with their price
\* text and thumbnail (for Gesticasa, the price element of the detail page)
IndexCards ==
    { [priceText |-> Price179000, imageUrl |-> Some("thumbnail")],
      [priceText |-> Price1000, imageUrl |-> NULL],
      [priceText |-> Price999, imageUrl |-> Some("thumbnail")],
      [priceText |-> PriceOnRequest, imageUrl |-> NULL] }
PageContents == SeqsUpTo(IndexCards, MaxPageListings)

\* A detail page fetch: it fails, or yields a page without gallery and
\* location, or a page with both
DetailOutcomes == {"failed", "bare", "full"}

Min(a, b) == IF a < b THEN a ELSE b

\* Raw listings of page `page`: the listing URL is the card's place on the site
RawOf(page, cards) ==
    [k \in 1..Len(cards) |->
        [ url |-> <<page, k>>, priceText |-> cards[k].priceText,
          imageUrl |-> cards[k].imageUrl ]]

\* BaseScraper.delay() has completed / a page fetch (fetchPage) has ended:
\* `delayed` tells whether a delay completed since the last fetch, and
\* `undelayed` whether some fetch after the first started without one
Delay(activation) == [activation EXCEPT !.delayed = TRUE]
Fetch(activation) ==
    [activation EXCEPT
        !.anyFetch = TRUE,
        !.delayed = FALSE,
        !.undelayed = @ \/ (activation.anyFetch /\ ~activation.delayed)]

\* scrape() is entered by a run with the given page override
ScrapeBegin ==
    /\ scraper.pc \in {"idle", "done", "threw"}
    /\ \E strategy \in Strategies, override \in PageOverrides :
          scraper' = [ pc |-> IF strategy = ProfessioneStrategy
                               THEN "api" ELSE "page1",
                       strategy |-> strategy, override |-> override,
                       totalPages |-> 0, page |-> 1, indexFetches |-> 0,
                       detailFetches |-> 0, failedDetails |-> {}, raw |-> <<>>,
                       i |-> 1, properties |-> <<>>, clock |-> 0,
                       emptyPage |-> FALSE,
                       anyFetch |-> FALSE,
                       delayed |-> FALSE, undelayed |-> FALSE ]
    /\ UNCHANGED <<properties, sources, now, call, registry, run, enrichment>>

\* The fetch of the first index page.  Vittori and Casa Amola catch its
\* failure and return [], Gesticasa lets it escape; the single-page
\* strategies also return [] for no cards
ScrapeFirstPage ==
    /\ scraper.pc = "page1"
    /\ \E ok \in BOOLEAN, cards \in PageContents, maxLink \in PageLinks :
          LET st == scraper.strategy
              fetched == Fetch([scraper EXCEPT !.indexFetches = @ + 1])
              total == IF st.paginated THEN Min(maxLink, st.maxPages) ELSE 1
          IN  scraper' =
                IF ~ok /\ ~st.catchesIndex
                THEN [fetched EXCEPT !.pc = "threw"]
                ELSE IF ~ok \/ (~st.paginated /\ Len(cards) = 0)
                THEN [fetched EXCEPT !.pc = "done"]
                ELSE [fetched EXCEPT
                        !.raw = RawOf(1, cards), !.totalPages = total,
                        !.page = 2, !.emptyPage = Len(cards) = 0,
                        !.pc = IF 2 <= total THEN "pages" ELSE "normalize"]
    /\ UNCHANGED <<properties, sources, now, call, registry, run, enrichment>>

\* One iteration of the loop over the remaining pages: delay, fetch; a
\* failing fetch or a page without cards ends the loop
ScrapeNextPage ==
    /\ scraper.pc = "pages"
    /\ \E ok \in BOOLEAN, cards \in PageContents :
          LET fetched == Fetch(Delay([scraper EXCEPT !.indexFetches = @ + 1]))
          IN  scraper' =
                IF ~ok
                THEN [fetched EXCEPT !.pc = "normalize"]
                ELSE [fetched EXCEPT
                        !.raw = @ \o RawOf(scraper.page, cards),
                        !.page = @ + 1, !.emptyPage = Len(cards) = 0,
                        !.pc = IF Len(cards) = 0 \/ scraper.page + 1 > scraper.totalPages
                               THEN "normalize" ELSE "pages"]
    /\ UNCHANGED <<properties, sources, now, call, registry, run, enrichment>>

\* VittoriScraper.generateOrderedTimestamp: the clock reading at the call
\* minus `index` minutes.  The clock counts half minutes; between two
\* listings it advances by the delay, the detail fetch and the translation
MinuteTicks == 2
ElapsedTicks == {1, 2}
generateOrderedTimestamp(clock, index) == clock - index * MinuteTicks

\* Image list of a normalized listing: the gallery of the detail page, else
\* the thumbnail of the index card when there is one
ImageUrlsOf(rawListing, detail) ==
    IF detail = "full" THEN <<"gallery">>
    ELSE IF rawListing.imageUrl # NULL THEN <<rawListing.imageUrl[1]>>
    ELSE << >>

\* One iteration of the loop over the raw listings.  With index data
\* (normalizeListingsWithDetails): a listing whose price fails the test is
\* skipped; for the others the detail page is fetched, a failing fetch
\* yields the default detail data, and the listing is pushed.  Without
\* (GesticasaScraper.scrape): the detail page is fetched first, and the
\* property is skipped when the fetch failed, the price fails the test or
\* no city was found
ScrapeNormalize ==
    /\ scraper.pc = "normalize"
    /\ scraper.i <= Len(scraper.raw)
    /\ LET rawListing == scraper.raw[scraper.i]
           price == parsePrice(rawListing.priceText)
           skipsPrice == SkipsPrice(price, scraper.strategy.priceFloor)
           Fetched(detail) ==
               Fetch(Delay([scraper EXCEPT
                   !.i = @ + 1,
                   !.detailFetches = @ + 1,
                   !.failedDetails =
                       IF detail = "failed" THEN @ \cup {rawListing.url} ELSE @]))
           Pushed(detail, elapsed) ==
               [Fetched(detail) EXCEPT
                   !.clock = @ + elapsed,
                   !.properties =
                       Append(@, [ listing_url |-> rawListing.url,
                                   price_eur |-> price[1],
                                   detailed |-> detail # "failed",
                                   image_urls |-> ImageUrlsOf(rawListing, detail),
                                   source_updated_at |->
                                       IF scraper.strategy = VittoriStrategy
                                       THEN Some(generateOrderedTimestamp(
                                                     scraper.clock + elapsed,
                                                     scraper.i - 1))
                                       ELSE NULL ])]
       IN  IF scraper.strategy.indexData
           THEN IF skipsPrice
                THEN scraper' = [scraper EXCEPT !.i = @ + 1]
                ELSE \E detail \in DetailOutcomes :
                        \E elapsed \in IF scraper.strategy = VittoriStrategy
                                        THEN ElapsedTicks ELSE {0} :
                            scraper' = Pushed(detail, elapsed)
           ELSE \E detail \in DetailOutcomes :
                  scraper' = IF detail # "full" \/ skipsPrice
                             THEN Fetched(detail)
                             ELSE Pushed(detail, 0)
    /\ UNCHANGED <<properties, sources, now, call, registry, run, enrichment>>

\* scrape() returns the normalized listings
ScrapeReturn ==
    /\ scraper.pc = "normalize"
    /\ scraper.i > Len(scraper.raw)
    /\ scraper' = [scraper EXCEPT !.pc = "done"]
    /\ UNCHANGED <<properties, sources, now, call, registry, run, enrichment>>

\* ProfessioneImmobiliareScraper.fetchEstateModifiedDates, one iteration:
\* an API page is fetched; after a page with estates comes the delay,
\* unless the safety limit is reached; an empty page or an error ends the
\* loop at once
ApiPageLimit == 50

PiApiPage ==
    /\ scraper.pc = "api"
    /\ \E outcome \in {"estates", "empty", "error"} :
          LET fetched == Fetch(scraper)
          IN  scraper' =
                IF outcome # "estates"
                THEN [fetched EXCEPT !.pc = "cities", !.page = 1]
                ELSE IF scraper.page + 1 > ApiPageLimit
                THEN [fetched EXCEPT !.pc = "cities", !.page = 1]
                ELSE Delay([fetched EXCEPT !.page = @ + 1])
    /\ UNCHANGED <<properties, sources, now, call, registry, run, enrichment>>

\* getCitiesWithProperties: the taxonomy fetch, whose failure escapes scrape()
PiCities ==
    /\ scraper.pc = "cities"
    /\ \E ok \in BOOLEAN, cities \in PageLinks \cup {0} :
          scraper' = IF ok
                     THEN [Fetch(scraper) EXCEPT !.pc = "city", !.totalPages = cities]
                     ELSE [Fetch(scraper) EXCEPT !.pc = "threw"]
    /\ UNCHANGED <<properties, sources, now, call, registry, run, enrichment>>

\* One city of the loop of scrape(): delay, fetch of the archive page (a
\* failure is caught and the next city follows), then the estates with a
\* valid price are kept for processing
PiCityPage ==
    /\ scraper.pc = "city"
    /\ scraper.page <= scraper.totalPages
    /\ \E ok \in BOOLEAN, cards \in PageContents :
          LET fetched == Fetch(Delay(scraper))
              estates == RawOf(scraper.page, cards)
              estatesToProcess ==
                  SelectSeq(estates,
                            LAMBDA e : ~SkipsPrice(parsePrice(e.priceText),
                                                   scraper.strategy.priceFloor))
          IN  scraper' =
                IF ~ok \/ Len(estatesToProcess) = 0
                THEN [fetched EXCEPT !.page = @ + 1]
                ELSE [fetched EXCEPT !.pc = "estate", !.raw = estatesToProcess,
                                     !.i = 1]
    /\ UNCHANGED <<properties, sources, now, call, registry, run, enrichment>>

\* One estate of the city: delay, fetchFullDescription (null on failure),
\* and the property is pushed; after the last estate the next city follows
PiEstate ==
    /\ scraper.pc = "estate"
    /\ \E detail \in DetailOutcomes :
          LET estate == scraper.raw[scraper.i]
              last == scraper.i = Len(scraper.raw)
          IN  scraper' =
                [Fetch(Delay(scraper)) EXCEPT
                    !.detailFetches = @ + 1,
                    !.failedDetails =
                        IF detail = "failed" THEN @ \cup {estate.url} ELSE @,
                    !.properties =
                        Append(@, [ listing_url |-> estate.url,
                                    price_eur |-> parsePrice(estate.priceText)[1],
                                    detailed |-> detail # "failed",
                                    image_urls |-> ImageUrlsOf(estate, "bare"),
                                    source_updated_at |-> NULL ]),
                    !.i = @ + 1,
                    !.pc = IF last THEN "city" ELSE "estate",
                    !.page = IF last THEN @ + 1 ELSE @]
    /\ UNCHANGED <<properties, sources, now, call, registry, run, enrichment>>

\* scrape() returns after the last city
PiReturn ==
    /\ scraper.pc = "city"
    /\ scraper.page > scraper.totalPages
    /\ scraper' = [scraper EXCEPT !.pc = "done"]
    /\ UNCHANGED <<properties, sources, now, call, registry, run, enrichment>>

ScrapeNext ==
    \/ ScrapeBegin
    \/ ScrapeFirstPage
    \/ ScrapeNextPage
    \/ ScrapeNormalize
    \/ ScrapeReturn
    \/ PiApiPage
    \/ PiCities
    \/ PiCityPage
    \/ PiEstate
    \/ PiReturn

ScrapeSpec == Init /\ [][ScrapeNext]_vars

----------------------------------------------------------------------------
(* scrapers/sources/base.ts: BaseScraper.fetchPage *)

\* Largest number of redirect responses a server gives in a row
MaxRedirects == 2

\* URLs and Location headers: absolute, or relative to the site
Hosts == {"site", "cdn"}
Paths == {"/a", "/b"}
FetchUrls == [host : Hosts, path : Paths]
Locations == [absolute : {TRUE}, host : Hosts, path : Paths]
                 \cup [absolute : {FALSE}, host : {"site"}, path : Paths]
                 \cup {NULL}
Responses == [statusCode : {200, 301, 302, 404}, location : Locations]

\* `redirectUrl.startsWith("http") ? redirectUrl : protocol//host + redirectUrl`
RedirectTarget(url, location) ==
    IF location.absolute
    THEN [host |-> location.host, path |-> location.path]
    ELSE [host |-> url.host, path |-> location.path]

\* fetchPage(url) is called: the request is sent
FetchPageBegin ==
    /\ call.status \in {"returned", "resolved", "rejected"}
    /\ \E url \in FetchUrls :
          call' = [ op |-> "fetchPage", status |-> "requested", chain |-> <<url>> ]
    /\ UNCHANGED <<properties, sources, now, registry, run, scraper, enrichment>>

\* The response callback, or the request's error event.  A 301 or 302 with
\* a Location header makes a nested fetchPage call whose outcome settles
\* this one; `chain` holds the URLs requested so far
FetchPageResponse ==
    /\ call.op = "fetchPage"
    /\ call.status = "requested"
    /\ \E networkError \in BOOLEAN, res \in Responses :
          LET url == call.chain[Len(call.chain)]
          IN  IF networkError
              THEN call' = [call EXCEPT !.status = "rejected"]
              ELSE IF res.statusCode \in {301, 302} /\ res.location # NULL
              THEN /\ Len(call.chain) <= MaxRedirects
                   /\ call' = [call EXCEPT
                                  !.chain = Append(@, RedirectTarget(url, res.location))]
              ELSE IF res.statusCode # 200
              THEN call' = [call EXCEPT !.status = "rejected"]
              ELSE call' = [call EXCEPT !.status = "resolved"]
    /\ UNCHANGED <<properties, sources, now, registry, run, scraper, enrichment>>

FetchNext ==
    \/ FetchPageBegin
    \/ FetchPageResponse

FetchSpec == Init /\ [][FetchNext]_vars

----------------------------------------------------------------------------
(* scrapers/runner.ts *)

ZeroStats ==
    [ totalSources |-> 0, totalRegions |-> 0, totalPropertiesScraped |-> 0,
      totalNewListings |-> 0, totalUpdatedListings |-> 0, totalErrors |-> 0 ]

UrlsOf(props) == { props[k].listing_url : k \in 1..Len(props) }

ActiveUrls(db, s, r) ==
    { u \in DOMAIN db : db[u].source_id = s /\ db[u].region_id = r
                        /\ db[u].is_archived = FALSE }

\* What a strategy can return for one unit: every listing URL of the site
\* once, in the site's order
ScrapeOutputs(s, r) ==
    { props \in BatchesOf(s, r) :
        \A j, k \in 1..Len(props) :
            j < k => UrlPos(props[j].listing_url) < UrlPos(props[k].listing_url) }

NoUnit == [sourceId |-> "none"]

\* The price text of the card of a listing with details d
PriceTextOf(d) == IF d.price_eur = 179000 THEN Price179000 ELSE Price150000

\* The card of a listing the site shows without a price
UnpricedCard == [listing_url |-> "X", details |-> SparseDetails,
                 priceText |-> PriceOnRequest]

CardsOf(props) ==
    [k \in 1..Len(props) |->
        [ listing_url |-> props[k].listing_url,
          details |-> IF props[k].price_eur = 179000 THEN FullDetails
                      ELSE SparseDetails,
          priceText |-> IF props[k].price_eur = 179000 THEN Price179000
                        ELSE Price150000 ]]

InsertAt(sq, k, x) ==
    [j \in 1..(Len(sq) + 1) |->
        IF j <= k THEN sq[j] ELSE IF j = k + 1 THEN x ELSE sq[j - 1]]

\* The raw listings a strategy can collect for one unit: every priced
\* listing of the site once, in the site's order, and at most one card
\* without a price among them
RawOutputs(s, r) ==
    LET priced == { CardsOf(props) : props \in ScrapeOutputs(s, r) }
    IN  priced \cup UNION { { InsertAt(cards, k, UnpricedCard) : k \in 0..Len(cards) } :
                              cards \in priced }

\* The price floor of the strategy registered for a source id
PriceFloorOf(id) ==
    IF id = VittoriStrategy.id THEN VittoriStrategy.priceFloor ELSE Some(1000)

\* normalizeListingsWithDetails that pushes a listing for every raw card
RECURSIVE normalizeListings_KeepAll(_, _, _, _)
normalizeListings_KeepAll(raw, s, r, floor) ==
    IF Len(raw) = 0 THEN <<>>
    ELSE LET price == parsePrice(Head(raw).priceText)
             d == [Head(raw).details EXCEPT
                     !.price_eur = IF price = NULL THEN 0 ELSE price[1]]
         IN  <<MkListing(Head(raw).listing_url, s, r, d)>>
             \o normalizeListings_KeepAll(Tail(raw), s, r, floor)

\* normalizeListingsWithDetails over the raw listings of a unit: the cards
\* whose price fails the test are skipped, the others become PropertyInserts
RECURSIVE normalizeListings(_, _, _, _)
normalizeListings(raw, s, r, floor) ==
    IF Len(raw) = 0 THEN <<>>
    ELSE LET price == parsePrice(Head(raw).priceText)
             rest == normalizeListings(Tail(raw), s, r, floor)
         IN  IF SkipsPrice(price, floor)
             THEN rest
             ELSE <<MkListing(Head(raw).listing_url, s, r,
                              [Head(raw).details EXCEPT !.price_eur = price[1]])>>
                  \o rest

\* runScraper: what one source+region unit does, given what the site
\* answers (index page fetched or not, the listings the strategy extracts)
\* and the outcome of each listing's storage queries
runScraper(db, cfg, regionId, dbSource, opts, indexOk, scraped, outcomes, t) ==
    LET \* scraper.scrape(...) inside try/catch
        scrapeThrew == ~indexOk /\ cfg.onIndexFailure = "throws"
        props == IF indexOk THEN scraped ELSE <<>>
        scrapeErrors == IF scrapeThrew THEN 1 ELSE 0
        \* ingestProperties inside try/catch, unless dry run
        doIngest == ~opts.dryRun /\ Len(props) > 0
    IN  IF doIngest
        THEN LET Unit(ing) ==
                   [ db |-> ing.db,
                     properties |-> props,
                     errors |-> scrapeErrors + (IF ing.threw THEN 1 ELSE 0),
                     hasIngestionResult |-> ~ing.threw,
                     ingestionResult |-> ing.result,
                     scrapeThrew |-> scrapeThrew,
                     ingestThrew |-> ing.threw ]
             IN  Unit(ingestProperties(db, props, outcomes, t))
        ELSE [ db |-> db,
               properties |-> props,
               errors |-> scrapeErrors,
               hasIngestionResult |-> FALSE,
               ingestionResult |-> EmptyResult(Len(props)),
               scrapeThrew |-> scrapeThrew,
               ingestThrew |-> FALSE ]

\* runIngestion is entered: options merged, stats zeroed, sources resolved
RunBegin ==
    /\ run.pc \in {"idle", "done", "failed", "exited"}
    /\ run.runs < MaxRuns
    /\ call.status # "running"
    /\ \E dry \in BOOLEAN, srcFilter \in SourceFilters, regFilter \in RegionFilters :
          LET opts == [dryRun |-> dry, sources |-> srcFilter, regions |-> regFilter]
          IN  run' = [ pc |-> "source", runs |-> run.runs + 1, opts |-> opts,
                       sourcesToRun |-> SourcesToRun(registry, opts),
                       s |-> 1, regionsToScrape |-> <<>>, r |-> 1,
                       dbSource |-> 0, stats |-> ZeroStats,
                       regionsProcessed |-> {}, results |-> 0, last |-> NoUnit,
                       unitFailures |-> 0, unknownRegions |-> 0,
                       fetchFailed |-> FALSE, storageFailed |-> FALSE,
                       passed |-> 0, dropped |-> FALSE ]
    /\ UNCHANGED <<properties, sources, now, call, registry, scraper, enrichment>>

\* Head of the source loop: getOrCreateSource inside try/catch, then the
\* regions to scrape
RunSource ==
    /\ run.pc = "source"
    /\ run.s <= Len(run.sourcesToRun)
    /\ LET id == run.sourcesToRun[run.s]
           stats1 == [run.stats EXCEPT !.totalSources = @ + 1]
       IN  \E dbOk \in BOOLEAN :
             IF dbOk
             THEN LET got == getOrCreateSource(sources, registry[id].name)
                  IN  /\ sources' = got.sources
                      /\ run' = [run EXCEPT
                                   !.pc = "region", !.stats = stats1,
                                   !.dbSource = got.source.id,
                                   !.regionsToScrape =
                                       RegionsToScrape(registry, run.opts, id),
                                   !.r = 1]
             ELSE /\ sources' = sources
                  /\ run' = [run EXCEPT
                               !.stats = [stats1 EXCEPT !.totalErrors = @ + 1],
                               !.unitFailures = @ + 1,
                               !.storageFailed = TRUE,
                               !.s = @ + 1]
    /\ UNCHANGED <<properties, now, call, registry, scraper, enrichment>>

\* One iteration of the region loop: getRegionBySlug, runScraper, stats
RunRegion ==
    /\ run.pc = "region"
    /\ run.r <= Len(run.regionsToScrape)
    /\ LET id == run.sourcesToRun[run.s]
           slug == run.regionsToScrape[run.r]
           region == getRegionBySlug(slug)
       IN  \E dbOk \in BOOLEAN :
             IF ~dbOk
             THEN \* the query rejects outside any try: runIngestion rejects
                  /\ run' = [run EXCEPT !.pc = "failed"]
                  /\ UNCHANGED properties
             ELSE IF region = NULL
             THEN /\ run' = [run EXCEPT
                               !.stats = [@ EXCEPT !.totalErrors = @ + 1],
                               !.unitFailures = @ + 1,
                               !.unknownRegions = @ + 1,
                               !.r = @ + 1]
                  /\ UNCHANGED properties
             ELSE \E indexOk \in BOOLEAN :
                  \E raw \in (IF indexOk THEN RawOutputs(run.dbSource, region[1])
                              ELSE {<<>>}) :
                  \E scraped \in { normalizeListings(raw, run.dbSource, region[1],
                                                     PriceFloorOf(id)) } :
                  \E priced \in { { k \in 1..Len(raw) :
                                      parsePrice(raw[k].priceText) # NULL } } :
                  \E outcomes \in (IF run.opts.dryRun
                                   THEN {[k \in 1..Len(scraped) |-> "ok"]}
                                   ELSE [1..Len(scraped) -> Outcomes]) :
                  \E out \in { runScraper(properties, registry[id], region[1],
                                           run.dbSource, run.opts, indexOk,
                                           scraped, outcomes, now) } :
                    LET n == Len(out.properties)
                        stats1 == [run.stats EXCEPT
                                     !.totalPropertiesScraped = @ + n,
                                     !.totalErrors = @ + out.errors]
                        stats2 == IF out.hasIngestionResult
                                  THEN [stats1 EXCEPT
                                          !.totalNewListings =
                                              @ + out.ingestionResult.newListings,
                                          !.totalUpdatedListings =
                                              @ + out.ingestionResult.updatedListings,
                                          !.totalErrors =
                                              @ + out.ingestionResult.errors]
                                  ELSE stats1
                    IN  /\ properties' = out.db
                        /\ run' = [run EXCEPT
                                     !.regionsProcessed = @ \cup {slug},
                                     !.results = @ + 1,
                                     !.last =
                                         [ sourceId |-> id, regionSlug |-> slug,
                                           dbSource |-> run.dbSource,
                                           properties |-> n, errors |-> out.errors,
                                           indexOk |-> indexOk,
                                           scrapedUrls |-> UrlsOf(out.properties),
                                           activeBefore |->
                                               ActiveUrls(properties, run.dbSource,
                                                          region[1]) ],
                                     !.stats = stats2,
                                     !.fetchFailed = @ \/ ~indexOk,
                                     !.storageFailed =
                                         @ \/ (~run.opts.dryRun /\ indexOk /\
                                               \E k \in DOMAIN outcomes :
                                                  outcomes[k] # "ok"),
                                     !.passed = @ + (IF indexOk
                                                     THEN Cardinality(priced) ELSE 0),
                                     !.dropped = @ \/ (indexOk /\
                                                       Cardinality(priced) < Len(raw)),
                                     !.unitFailures = @ +
                                         (IF out.scrapeThrew \/ out.ingestThrew
                                          THEN 1 ELSE 0),
                                     !.r = @ + 1]
    /\ UNCHANGED <<sources, now, call, registry, scraper, enrichment>>

\* The region loop of the current source is over
RunNextSource ==
    /\ run.pc = "region"
    /\ run.r > Len(run.regionsToScrape)
    /\ run' = [run EXCEPT !.pc = "source", !.s = @ + 1]
    /\ UNCHANGED <<properties, sources, now, call, registry, scraper, enrichment>>

\* The source loop is over: the summary is returned
RunReturn ==
    /\ run.pc = "source"
    /\ run.s > Len(run.sourcesToRun)
    /\ run' = [run EXCEPT
                 !.pc = "done",
                 !.stats = [@ EXCEPT
                              !.totalRegions = Cardinality(run.regionsProcessed)]]
    /\ UNCHANGED <<properties, sources, now, call, registry, scraper, enrichment>>

\* The exit status main() of a CLI entry point leaves the process with:
\* process.exit(1) when runIngestion rejected or the summary counts an
\* error; otherwise main falls through to closePool, and a rejecting
\* closePool is an unhandled rejection (status 1)
ExitCode_IgnoreSummary(threw, totalErrors, closeOk) ==
    IF threw THEN 1 ELSE IF closeOk THEN 0 ELSE 1

ExitCode(threw, totalErrors, closeOk) ==
    IF threw THEN 1
    ELSE IF totalErrors > 0 THEN 1
    ELSE IF closeOk THEN 0 ELSE 1

\* main() after runIngestion settled
CliMain ==
    /\ run.pc \in {"done", "failed"}
    /\ \E closeOk \in BOOLEAN :
          run' = ("exitCode" :> ExitCode(run.pc = "failed", run.stats.totalErrors, closeOk))
                 @@ ("threw" :> (run.pc = "failed"))
                 @@ [run EXCEPT !.pc = "exited"]
    /\ UNCHANGED <<properties, sources, now, call, registry, scraper, enrichment>>

RunInit ==
    /\ properties = << >>
    /\ sources = << >>
    /\ now = 0
    /\ call = NoCall
    /\ registry \in RegistryInputs
    /\ run = IdleRun
    /\ scraper = NoScrape
    /\ enrichment = NoEnrichment

RunNext ==
    \/ RunBegin
    \/ RunSource
    \/ RunRegion
    \/ RunNextSource
    \/ RunReturn
    \/ CliMain

RunSpec == RunInit /\ [][RunNext]_vars

----------------------------------------------------------------------------
(* lib/ai-enrichment.ts: the regular expressions                            *)
(*                                                                         *)
(* A regular expression is the sequence of its alternatives in priority    *)
(* order; an alternative is a sequence of atoms.  An atom consumes between  *)
(* lo and hi characters of a class, greedily, or asserts a word boundary.   *)
(* Alternation and optional groups of the source expressions are written    *)
(* out as alternatives (the group taken first, then skipped).               *)

LowerCase ==
    << "a", "b", "c", "d", "e", "f", "g", "h", "i", "j", "k", "l", "m",
       "n", "o", "p", "q", "r", "s", "t", "u", "v", "w", "x", "y", "z" >>
UpperCase ==
    << "A", "B", "C", "D", "E", "F", "G", "H", "I", "J", "K", "L", "M",
       "N", "O", "P", "Q", "R", "S", "T", "U", "V", "W", "X", "Y", "Z" >>

\* String.prototype.toLowerCase / toUpperCase, one character
LowerOf(c) ==
    IF \E k \in DOMAIN UpperCase : UpperCase[k] = c
    THEN LowerCase[CHOOSE k \in DOMAIN UpperCase : UpperCase[k] = c]
    ELSE c
UpperOf(c) ==
    IF \E k \in DOMAIN LowerCase : LowerCase[k] = c
    THEN UpperCase[CHOOSE k \in DOMAIN LowerCase : LowerCase[k] = c]
    ELSE c
toLowerCase(text) == [k \in DOMAIN text |-> LowerOf(text[k])]
toUpperCase(text) == [k \in DOMAIN text |-> UpperOf(text[k])]

\* Character classes: \s, \d, \w, [A-G] and a literal, all under the i flag
WhiteSpace == {" ", "\t", "\n"}
DigitChars == {Digits[k] : k \in DOMAIN Digits}
WordChars ==
    {LowerCase[k] : k \in DOMAIN LowerCase}
        \cup {UpperCase[k] : k \in DOMAIN UpperCase}
        \cup DigitChars \cup {"_"}
ClassAtoG == {"A", "B", "C", "D", "E", "F", "G", "a", "b", "c", "d", "e", "f", "g"}
CaseFold(c) == {c, LowerOf(c), UpperOf(c)}

\* neg: the class is negated ([^...]); lazy: the quantifier takes as few
\* characters as possible (*?)
Atom(cs, neg, lo, hi, lazy, cap) ==
    [ kind |-> "class", cs |-> cs, neg |-> neg, lo |-> lo, hi |-> hi,
      lazy |-> lazy, cap |-> cap ]
Rep(cs, lo, hi, cap) == Atom(cs, FALSE, lo, hi, FALSE, cap)
WordBoundary ==
    [ kind |-> "boundary", cs |-> {}, neg |-> FALSE, lo |-> 0, hi |-> Some(0),
      lazy |-> FALSE, cap |-> FALSE ]
\* A run of literal characters of an /i expression, as one atom
Word(w) == << [kind |-> "literal", word |-> w] >>
Spaces == << Rep(WhiteSpace, 1, NULL, FALSE) >>
OptSpaces == << Rep(WhiteSpace, 0, NULL, FALSE) >>

\* \b before the character at pos
AtWordBoundary(text, pos) ==
    LET IsWordAt(p) == p \in DOMAIN text /\ text[p] \in WordChars
    IN  IsWordAt(pos - 1) # IsWordAt(pos)

\* Number of consecutive characters of the atom's class from pos on, limit
\* at most
RunLength(text, pos, atom, limit) ==
    LET longest == Min(limit, Len(text) + 1 - pos)
        stops == { j \in pos..(pos + longest - 1) :
                     (text[j] \in atom.cs) = atom.neg }
    IN  IF stops = {}
        THEN longest
        ELSE (CHOOSE j \in stops : \A m \in stops : j <= m) - pos

\* Match of the atoms k.. of an alternative at pos: NULL, or the text of
\* the capture group
RECURSIVE MatchFrom(_, _, _, _, _)
RECURSIVE Backtrack(_, _, _, _, _, _)
RECURSIVE Advance(_, _, _, _, _, _, _)
MatchFrom(alt, k, text, pos, captured) ==
    IF k > Len(alt)
    THEN Some(captured)
    ELSE IF alt[k].kind = "boundary"
    THEN IF AtWordBoundary(text, pos)
         THEN MatchFrom(alt, k + 1, text, pos, captured)
         ELSE NULL
    ELSE IF alt[k].kind = "literal"
    THEN IF /\ pos + Len(alt[k].word) - 1 <= Len(text)
            /\ \A j \in DOMAIN alt[k].word :
                   text[pos + j - 1] \in CaseFold(alt[k].word[j])
         THEN MatchFrom(alt, k + 1, text, pos + Len(alt[k].word), captured)
         ELSE NULL
    ELSE LET limit == IF alt[k].hi = NULL THEN Len(text) ELSE alt[k].hi[1]
             most == RunLength(text, pos, alt[k], limit)
         IN  IF most < alt[k].lo
             THEN NULL
             ELSE IF alt[k].lazy
             THEN Advance(alt, k, text, pos, captured, alt[k].lo, most)
             ELSE Backtrack(alt, k, text, pos, captured, most)

Backtrack(alt, k, text, pos, captured, n) ==
    LET taken == IF alt[k].cap
                 THEN captured \o SubSeq(text, pos, pos + n - 1)
                 ELSE captured
        rest == MatchFrom(alt, k + 1, text, pos + n, taken)
    IN  IF rest # NULL \/ n = alt[k].lo
        THEN rest
        ELSE Backtrack(alt, k, text, pos, captured, n - 1)

\* A lazy quantifier: the fewest characters with which the rest matches
Advance(alt, k, text, pos, captured, n, most) ==
    LET rests == [m \in n..most |->
                    MatchFrom(alt, k + 1, text, pos + m, captured)]
        hits == {m \in n..most : rests[m] # NULL}
    IN  IF hits = {}
        THEN NULL
        ELSE rests[CHOOSE m \in hits : \A j \in hits : m <= j]

\* RegExp.prototype.test
Test(regex, text) ==
    \E pos \in 1..(Len(text) + 1) :
        \E a \in DOMAIN regex : MatchFrom(regex[a], 1, text, pos, << >>) # NULL

\* The capture group of the match that starts at pos, by the first
\* alternative that matches there; NULL without a match
MatchAt(regex, text, pos) ==
    LET hits == {a \in DOMAIN regex :
                    MatchFrom(regex[a], 1, text, pos, << >>) # NULL}
    IN  IF hits = {}
        THEN NULL
        ELSE MatchFrom(regex[CHOOSE a \in hits : \A b \in hits : a <= b],
                       1, text, pos, << >>)

\* String.prototype.match, no g flag: the leftmost match
Match(regex, text) ==
    LET starts == {pos \in 1..(Len(text) + 1) : MatchAt(regex, text, pos) # NULL}
    IN  IF starts = {}
        THEN NULL
        ELSE MatchAt(regex, text, CHOOSE pos \in starts : \A q \in starts : pos <= q)

----------------------------------------------------------------------------
(* lib/ai-enrichment.ts: feature extraction and merging *)

\* ExtractedFeatures: the 13 boolean amenities in the order of
\* FEATURE_PATTERNS, then the three extracted values.  A features value is
\* a function from keys to options.
BooleanKeys ==
    << "has_sea_view", "has_garden", "has_pool", "has_terrace", "has_balcony",
       "has_parking", "has_garage", "has_fireplace", "has_air_conditioning",
       "has_elevator", "is_renovated", "has_mountain_view",
       "has_panoramic_view" >>
ValueKeys == << "floor_number", "year_built", "energy_class" >>
FeatureKeys ==
    {BooleanKeys[k] : k \in DOMAIN BooleanKeys}
        \cup {ValueKeys[k] : k \in DOMAIN ValueKeys}

FEATURE_PATTERNS ==
       ("has_sea_view" :>
          [ positive |->
              << << Word(<<"v", "i", "s", "t", "a">>) \o Spaces \o Word(<<"m", "a", "r", "e">>) >>,
                 << Word(<<"v", "i", "s", "t", "a">>) \o Spaces \o Word(<<"s", "u", "l">>) \o Spaces \o Word(<<"m", "a", "r", "e">>) >>,
                 << Word(<<"a", "f", "f", "a", "c", "c", "i", "o">>) \o Spaces \o Word(<<"s", "u", "l">>) \o Spaces \o Word(<<"m", "a", "r", "e">>) >>,
                 << Word(<<"f", "r", "o", "n", "t", "e">>) \o Spaces \o Word(<<"m", "a", "r", "e">>) >>,
                 << Word(<<"s", "u", "l">>) \o Spaces \o Word(<<"m", "a", "r", "e">>) >>,
                 << Word(<<"p", "a", "n", "o", "r", "a", "m", "a">>) \o Spaces \o Word(<<"m", "a", "r", "i", "n", "o">>) >>,
                 << Word(<<"v", "i", "s", "t", "a">>) \o Spaces \o Word(<<"o", "c", "e", "a", "n", "o">>) >> >>,
            negative |->
              << << Word(<<"s", "e", "n", "z", "a">>) \o Spaces \o Word(<<"v", "i", "s", "t", "a">>) \o Spaces \o Word(<<"m", "a", "r", "e">>) >>,
                 << Word(<<"n", "o">>) \o Spaces \o Word(<<"v", "i", "s", "t", "a">>) \o Spaces \o Word(<<"m", "a", "r", "e">>) >> >> ])
    @@ ("has_garden" :>
          [ positive |->
              << << Word(<<"g", "i", "a", "r", "d", "i", "n", "o">>) >>,
                 << Word(<<"j", "a", "r", "d", "í", "n">>) >>,
                 << Word(<<"s", "p", "a", "z", "i", "o">>) \o Spaces \o Word(<<"v", "e", "r", "d", "e">>) >>,
                 << Word(<<"a", "r", "e", "a">>) \o Spaces \o Word(<<"v", "e", "r", "d", "e">>) >>,
                 << Word(<<"p", "a", "r", "c", "o">>) \o Spaces \o Word(<<"p", "r", "i", "v", "a", "t", "o">>) >>,
                 << Word(<<"t", "e", "r", "r", "e", "n", "o">>) \o Spaces \o Word(<<"c", "o", "n">>) \o Spaces \o Word(<<"p", "i", "a", "n", "t", "e">>) >> >>,
            negative |->
              << << Word(<<"s", "e", "n", "z", "a">>) \o Spaces \o Word(<<"g", "i", "a", "r", "d", "i", "n", "o">>) >>,
                 << Word(<<"n", "o">>) \o Spaces \o Word(<<"g", "i", "a", "r", "d", "i", "n", "o">>) >>,
                 << Word(<<"g", "i", "a", "r", "d", "i", "n", "o">>) \o Spaces \o Word(<<"c", "o", "n", "d", "o", "m", "i", "n", "i", "a", "l", "e">>) >> >> ])
    @@ ("has_pool" :>
          [ positive |->
              << << Word(<<"p", "i", "s", "c", "i", "n", "a">>) >>,
                 << Word(<<"p", "i", "s", "c", "i", "n", "e">>) >>,
                 << Word(<<"s", "w", "i", "m", "m", "i", "n", "g">>) \o Spaces \o Word(<<"p", "o", "o", "l">>) >> >>,
            negative |->
              << << Word(<<"s", "e", "n", "z", "a">>) \o Spaces \o Word(<<"p", "i", "s", "c", "i", "n", "a">>) >>,
                 << Word(<<"n", "o">>) \o Spaces \o Word(<<"p", "i", "s", "c", "i", "n", "a">>) >>,
                 << Word(<<"p", "i", "s", "c", "i", "n", "a">>) \o Spaces \o Word(<<"c", "o", "m", "u", "n", "a", "l", "e">>) >> >> ])
    @@ ("has_terrace" :>
          [ positive |->
              << << Word(<<"t", "e", "r", "r", "a", "z", "z", "a">>) >>,
                 << Word(<<"t", "e", "r", "r", "a", "z", "z", "o">>) >>,
                 << Word(<<"r", "o", "o", "f">>) \o Spaces \o Word(<<"t", "e", "r", "r", "a", "c", "e">>) >>,
                 << Word(<<"l", "a", "s", "t", "r", "i", "c", "o">>) \o Spaces \o Word(<<"s", "o", "l", "a", "r", "e">>) >> >>,
            negative |->
              << >> ])
    @@ ("has_balcony" :>
          [ positive |->
              << << Word(<<"b", "a", "l", "c", "o", "n", "e">>) >>,
                 << Word(<<"b", "a", "l", "c", "o", "n", "i">>) >>,
                 << Word(<<"l", "o", "g", "g", "i", "a">>) >>,
                 << Word(<<"l", "o", "g", "g", "e", "t", "t", "a">>) >> >>,
            negative |->
              << >> ])
    @@ ("has_parking" :>
          [ positive |->
              << << Word(<<"p", "o", "s", "t", "o">>) \o Spaces \o Word(<<"a", "u", "t", "o">>) >>,
                 << Word(<<"p", "o", "s", "t", "i">>) \o Spaces \o Word(<<"a", "u", "t", "o">>) >>,
                 << Word(<<"p", "a", "r", "c", "h", "e", "g", "g", "i", "o">>) >>,
                 << Word(<<"p", "a", "r", "k", "i", "n", "g">>) >>,
                 << Word(<<"a", "r", "e", "a">>) \o Spaces \o Word(<<"p", "a", "r", "c", "h", "e", "g", "g", "i", "o">>) >> >>,
            negative |->
              << >> ])
    @@ ("has_garage" :>
          [ positive |->
              << << Word(<<"g", "a", "r", "a", "g", "e">>) >>,
                 << Word(<<"b", "o", "x">>) \o Spaces \o Word(<<"a", "u", "t", "o">>) >>,
                 << Word(<<"a", "u", "t", "o", "r", "i", "m", "e", "s", "s", "a">>) >>,
                 << Word(<<"r", "i", "m", "e", "s", "s", "a">>) >> >>,
            negative |->
              << >> ])
    @@ ("has_fireplace" :>
          [ positive |->
              << << Word(<<"c", "a", "m", "i", "n", "o">>) >>,
                 << Word(<<"c", "a", "m", "i", "n", "e", "t", "t", "o">>) >>,
                 << Word(<<"s", "t", "u", "f", "a">>) \o Spaces \o Word(<<"a">>) \o Spaces \o Word(<<"l", "e", "g", "n", "a">>) >>,
                 << Word(<<"f", "i", "r", "e", "p", "l", "a", "c", "e">>) >> >>,
            negative |->
              << >> ])
    @@ ("has_air_conditioning" :>
          [ positive |->
              << << Word(<<"a", "r", "i", "a">>) \o Spaces \o Word(<<"c", "o", "n", "d", "i", "z", "i", "o", "n", "a", "t", "a">>) >>,
                 << Word(<<"c", "o", "n", "d", "i", "z", "i", "o", "n", "a", "t", "o", "r", "e">>) >>,
                 << Word(<<"c", "l", "i", "m", "a", "t", "i", "z", "z", "a", "t", "o", "r", "e">>) >>,
                 << Word(<<"c", "l", "i", "m", "a", "t", "i", "z", "z", "a", "z", "i", "o", "n", "e">>) >>,
                 << Word(<<"a", "/", "c">>) >>,
                 << Word(<<"a", "c">>) \o <<WordBoundary>> >> >>,
            negative |->
              << >> ])
    @@ ("has_elevator" :>
          [ positive |->
              << << Word(<<"a", "s", "c", "e", "n", "s", "o", "r", "e">>) >>,
                 << Word(<<"e", "l", "e", "v", "a", "t", "o", "r", "e">>) >>,
                 << Word(<<"l", "i", "f", "t">>) >> >>,
            negative |->
              << << Word(<<"s", "e", "n", "z", "a">>) \o Spaces \o Word(<<"a", "s", "c", "e", "n", "s", "o", "r", "e">>) >>,
                 << Word(<<"n", "o">>) \o Spaces \o Word(<<"a", "s", "c", "e", "n", "s", "o", "r", "e">>) >>,
                 << Word(<<"p", "r", "i", "v", "o">>) \o Spaces \o Word(<<"d", "i">>) \o Spaces \o Word(<<"a", "s", "c", "e", "n", "s", "o", "r", "e">>) >> >> ])
    @@ ("is_renovated" :>
          [ positive |->
              << << Word(<<"r", "i", "s", "t", "r", "u", "t", "t", "u", "r", "a", "t", "o">>) >>,
                 << Word(<<"r", "i", "s", "t", "r", "u", "t", "t", "u", "r", "a", "t", "a">>) >>,
                 << Word(<<"r", "i", "n", "n", "o", "v", "a", "t", "o">>) >>,
                 << Word(<<"r", "i", "n", "n", "o", "v", "a", "t", "a">>) >>,
                 << Word(<<"n", "u", "o", "v", "a">>) \o Spaces \o Word(<<"c", "o", "s", "t", "r", "u", "z", "i", "o", "n", "e">>) >>,
                 << Word(<<"r", "e", "c", "e", "n", "t", "e", "m", "e", "n", "t", "e">>) \o Spaces \o Word(<<"r", "i", "s", "t", "r", "u", "t", "t", "u", "r", "a", "t", "o">>) >>,
                 << Word(<<"c", "o", "m", "p", "l", "e", "t", "a", "m", "e", "n", "t", "e">>) \o Spaces \o Word(<<"r", "i", "s", "t", "r", "u", "t", "t", "u", "r", "a", "t", "o">>) >>,
                 << Word(<<"t", "o", "t", "a", "l", "m", "e", "n", "t", "e">>) \o Spaces \o Word(<<"r", "i", "s", "t", "r", "u", "t", "t", "u", "r", "a", "t", "o">>) >> >>,
            negative |->
              << >> ])
    @@ ("has_mountain_view" :>
          [ positive |->
              << << Word(<<"v", "i", "s", "t", "a">>) \o Spaces \o Word(<<"m", "o", "n", "t", "a", "g", "n", "a">>) >>,
                 << Word(<<"v", "i", "s", "t", "a">>) \o Spaces \o Word(<<"s", "u", "l", "l", "e">>) \o Spaces \o Word(<<"m", "o", "n", "t", "a", "g", "n", "e">>) >>,
                 << Word(<<"v", "i", "s", "t", "a">>) \o Spaces \o Word(<<"m", "o", "n", "t", "i">>) >>,
                 << Word(<<"p", "a", "n", "o", "r", "a", "m", "a">>) \o Spaces \o Word(<<"m", "o", "n", "t", "a", "n", "o">>) >>,
                 << Word(<<"v", "i", "s", "t", "a">>) \o Spaces \o Word(<<"a", "p", "p", "e", "n", "n", "i", "n", "i">>) >>,
                 << Word(<<"v", "i", "s", "t", "a">>) \o Spaces \o Word(<<"a", "l", "p", "i">>) >> >>,
            negative |->
              << >> ])
    @@ ("has_panoramic_view" :>
          [ positive |->
              << << Word(<<"v", "i", "s", "t", "a">>) \o Spaces \o Word(<<"p", "a", "n", "o", "r", "a", "m", "i", "c", "a">>) >>,
                 << Word(<<"p", "a", "n", "o", "r", "a", "m", "i", "c", "o">>) >>,
                 << Word(<<"p", "a", "n", "o", "r", "a", "m", "i", "c", "a">>) >>,
                 << Word(<<"v", "i", "s", "t", "a">>) \o Spaces \o Word(<<"m", "o", "z", "z", "a", "f", "i", "a", "t", "o">>) >>,
                 << Word(<<"v", "i", "s", "t", "a">>) \o Spaces \o Word(<<"s", "p", "e", "t", "t", "a", "c", "o", "l", "a", "r", "e">>) >> >>,
            negative |->
              << >> ])
    @@ ("floor_number" :>
          [ positive |->
              << >>,
            negative |->
              << >> ])
    @@ ("year_built" :>
          [ positive |->
              << >>,
            negative |->
              << >> ])
    @@ ("energy_class" :>
          [ positive |->
              << >>,
            negative |->
              << >> ])

FloorPatterns ==
    << << Word(<<"p", "i", "a", "n", "o">>) \o OptSpaces \o Word(<<"n">>) \o <<Rep(CaseFold("."), 0, Some(1), FALSE)>> \o OptSpaces \o <<Rep(DigitChars, 1, NULL, TRUE)>>,
          Word(<<"p", "i", "a", "n", "o">>) \o OptSpaces \o <<Rep(DigitChars, 1, NULL, TRUE)>>,
          Word(<<"f", "l", "o", "o", "r">>) \o OptSpaces \o Word(<<"n">>) \o <<Rep(CaseFold("."), 0, Some(1), FALSE)>> \o OptSpaces \o <<Rep(DigitChars, 1, NULL, TRUE)>>,
          Word(<<"f", "l", "o", "o", "r">>) \o OptSpaces \o <<Rep(DigitChars, 1, NULL, TRUE)>> >>,
       << <<Rep(DigitChars, 1, NULL, TRUE)>> \o <<Rep({"°", "º"}, 0, Some(1), FALSE)>> \o OptSpaces \o Word(<<"p", "i", "a", "n", "o">>) >>,
       << Word(<<"a", "l">>) \o Spaces \o <<Rep(WordChars, 1, NULL, TRUE)>> \o Spaces \o Word(<<"p", "i", "a", "n", "o">>) >> >>

GroundFloorPattern ==
    << << Word(<<"p", "i", "a", "n", "o">>) \o Spaces \o Word(<<"t", "e", "r", "r", "a">>),
          Word(<<"p", "i", "a", "n", "t", "e", "r", "r", "e", "n", "o">>) >> >>

YearPatterns ==
    << << Word(<<"c", "o", "s", "t", "r", "u", "i", "t", "o">>) \o Spaces \o Word(<<"n", "e", "l">>) \o Spaces \o <<Rep(DigitChars, 4, Some(4), TRUE)>>,
          Word(<<"c", "o", "s", "t", "r", "u", "i", "t", "o">>) \o Spaces \o <<Rep(DigitChars, 4, Some(4), TRUE)>> >>,
       << Word(<<"a", "n", "n", "o">>) \o Spaces \o Word(<<"d", "i">>) \o Spaces \o Word(<<"c", "o", "s", "t", "r", "u", "z", "i", "o", "n", "e">>) \o Spaces \o <<Rep(DigitChars, 4, Some(4), TRUE)>>,
          Word(<<"a", "n", "n", "o">>) \o Spaces \o <<Rep(DigitChars, 4, Some(4), TRUE)>> >>,
       << Word(<<"d", "e", "l">>) \o Spaces \o <<Rep(DigitChars, 4, Some(4), TRUE)>>,
          Word(<<"n", "e", "l">>) \o Spaces \o <<Rep(DigitChars, 4, Some(4), TRUE)>> >>,
       << Word(<<"r", "i", "s", "a", "l", "e", "n", "t", "e">>) \o Spaces \o Word(<<"a", "l">>) \o Spaces \o <<Rep(DigitChars, 4, Some(4), TRUE)>> >> >>

EnergyPatterns ==
    << << Word(<<"c", "l", "a", "s", "s", "e">>) \o Spaces \o Word(<<"e", "n", "e", "r", "g", "e", "t", "i", "c", "a">>) \o OptSpaces \o <<Rep(CaseFold(":"), 0, Some(1), FALSE)>> \o OptSpaces \o <<Rep(ClassAtoG, 1, Some(1), TRUE)>> \o <<Rep(CaseFold("+"), 0, Some(1), TRUE)>> >>,
       << Word(<<"A", "P", "E">>) \o OptSpaces \o <<Rep(CaseFold(":"), 0, Some(1), FALSE)>> \o OptSpaces \o <<Rep(ClassAtoG, 1, Some(1), TRUE)>> \o <<Rep(CaseFold("+"), 0, Some(1), TRUE)>> >>,
       << Word(<<"c", "e", "r", "t", "i", "f", "i", "c", "a", "z", "i", "o", "n", "e">>) \o Spaces \o Word(<<"e", "n", "e", "r", "g", "e", "t", "i", "c", "a">>) \o OptSpaces \o <<Rep(CaseFold(":"), 0, Some(1), FALSE)>> \o OptSpaces \o <<Rep(ClassAtoG, 1, Some(1), TRUE)>> \o <<Rep(CaseFold("+"), 0, Some(1), TRUE)>> >>,
       << Word(<<"c", "l", "a", "s", "s", "e">>) \o Spaces \o <<Rep(ClassAtoG, 1, Some(1), TRUE)>> \o <<Rep(CaseFold("+"), 0, Some(1), TRUE)>> \o <<WordBoundary>> >> >>

italianNumbers ==
       (<<"p", "r", "i", "m", "o">> :> 1)
 @@    (<<"p", "r", "i", "m", "a">> :> 1)
 @@    (<<"s", "e", "c", "o", "n", "d", "o">> :> 2)
 @@    (<<"s", "e", "c", "o", "n", "d", "a">> :> 2)
 @@    (<<"t", "e", "r", "z", "o">> :> 3)
 @@    (<<"t", "e", "r", "z", "a">> :> 3)
 @@    (<<"q", "u", "a", "r", "t", "o">> :> 4)
 @@    (<<"q", "u", "a", "r", "t", "a">> :> 4)
 @@    (<<"q", "u", "i", "n", "t", "o">> :> 5)
 @@    (<<"q", "u", "i", "n", "t", "a">> :> 5)
 @@    (<<"s", "e", "s", "t", "o">> :> 6)
 @@    (<<"s", "e", "s", "t", "a">> :> 6)
 @@    (<<"s", "e", "t", "t", "i", "m", "o">> :> 7)
 @@    (<<"s", "e", "t", "t", "i", "m", "a">> :> 7)
 @@    (<<"o", "t", "t", "a", "v", "o">> :> 8)
 @@    (<<"o", "t", "t", "a", "v", "a">> :> 8)
 @@    (<<"n", "o", "n", "o">> :> 9)
 @@    (<<"n", "o", "n", "a">> :> 9)
 @@    (<<"d", "e", "c", "i", "m", "o">> :> 10)
 @@    (<<"d", "e", "c", "i", "m", "a">> :> 10)
 @@    (<<"t", "e", "r", "r", "a">> :> 0)
 @@    (<<"p", "i", "a", "n", "t", "e", "r", "r", "e", "n", "o">> :> 0)

\* new Date().getFullYear() at the time of the extraction
CurrentYear == 2026

RECURSIVE FloorFrom(_, _)
FloorFrom(text, k) ==
    IF k > Len(FloorPatterns)
    THEN NULL
    ELSE LET match == Match(FloorPatterns[k], text)
             num == parseInt(match[1])
             word == toLowerCase(match[1])
         IN  IF match = NULL THEN FloorFrom(text, k + 1)
             ELSE IF num # NULL THEN num
             ELSE IF word \in DOMAIN italianNumbers
                  THEN Some(italianNumbers[word])
                  ELSE FloorFrom(text, k + 1)

extractFloorNumber(text) ==
    LET found == FloorFrom(text, 1)
    IN  IF found # NULL THEN found
        ELSE IF Test(GroundFloorPattern[1], text) THEN Some(0)
        ELSE NULL

RECURSIVE YearFrom(_, _)
YearFrom(text, k) ==
    IF k > Len(YearPatterns)
    THEN NULL
    ELSE LET match == Match(YearPatterns[k], text)
             year == parseInt(match[1])
         IN  IF match # NULL /\ year[1] >= 1800 /\ year[1] <= CurrentYear
             THEN year
             ELSE YearFrom(text, k + 1)

extractYearBuilt(text) == YearFrom(text, 1)

RECURSIVE EnergyFrom(_, _)
EnergyFrom(text, k) ==
    IF k > Len(EnergyPatterns)
    THEN NULL
    ELSE LET match == Match(EnergyPatterns[k], text)
         IN  IF match # NULL
             THEN Some(toUpperCase(match[1]))
             ELSE EnergyFrom(text, k + 1)

extractEnergyClass(text) == EnergyFrom(text, 1)

\* `!description`: null, undefined or the empty string
NoDescription(description) == description = NULL \/ description[1] = << >>

\* One round of the loop over FEATURE_PATTERNS: negative indicators first
FeatureFlag_PositiveFirst(patterns, text) ==
    IF \E p \in DOMAIN patterns.positive : Test(patterns.positive[p], text)
    THEN Some(TRUE)
    ELSE IF \E n \in DOMAIN patterns.negative : Test(patterns.negative[n], text)
    THEN Some(FALSE)
    ELSE NULL

FeatureFlag(patterns, text) ==
    IF \E n \in DOMAIN patterns.negative : Test(patterns.negative[n], text)
    THEN Some(FALSE)
    ELSE IF \E p \in DOMAIN patterns.positive : Test(patterns.positive[p], text)
    THEN Some(TRUE)
    ELSE NULL

extractFeaturesFromDescription(description) ==
    IF NoDescription(description)
    THEN [key \in FeatureKeys |-> NULL]
    ELSE LET text == toLowerCase(description[1])
         IN  [key \in FeatureKeys |->
                CASE key = "floor_number" -> extractFloorNumber(text)
                  [] key = "year_built" -> extractYearBuilt(description[1])
                  [] key = "energy_class" -> extractEnergyClass(description[1])
                  [] OTHER -> FeatureFlag(FEATURE_PATTERNS[key], text)]

\* JavaScript truthiness of a feature value: not null, false, 0 or ""
Truthy(key, value) ==
    /\ value # NULL
    /\ CASE key = "energy_class" -> value[1] # << >>
         [] key \in {"floor_number", "year_built"} -> value[1] # 0
         [] OTHER -> value[1] = TRUE

\* `existing` is Partial<ExtractedFeatures>: a key outside its domain is
\* undefined
mergeFeatures_Truthy(existing, extracted) ==
    [key \in DOMAIN extracted |->
        IF key \in DOMAIN existing /\ Truthy(key, existing[key])
        THEN existing[key]
        ELSE extracted[key]]

mergeFeatures(existing, extracted) ==
    [key \in DOMAIN extracted |->
        IF key \in DOMAIN existing /\ existing[key] # NULL
        THEN existing[key]
        ELSE extracted[key]]

\* getFeatureSummary: the keys whose label is pushed, in the order of the
\* if statements (floor_number and year_built have none)
SummaryKeys ==
    << "has_sea_view", "has_mountain_view", "has_panoramic_view", "has_garden",
       "has_pool", "has_terrace", "has_balcony", "has_parking", "has_garage",
       "has_fireplace", "has_air_conditioning", "has_elevator", "is_renovated",
       "energy_class" >>
getFeatureSummary(features) ==
    SelectSeq(SummaryKeys, LAMBDA key : Truthy(key, features[key]))

----------------------------------------------------------------------------
(* scripts/enrich-properties.ts *)

\* updatePropertyFeatures: the feature columns of the row after the UPDATE,
\* which sets every column whose extracted value is not null (no UPDATE is
\* sent when there is none)
updatePropertyFeatures(row, features) ==
    [column \in FeatureKeys |->
        IF features[column] # NULL THEN features[column] ELSE row[column]]

\* Phrases of the description_it column, joined with ", "
MaxPhrases == 2
SenzaGiardino == <<"s", "e", "n", "z", "a", " ", "g", "i", "a", "r", "d", "i", "n", "o">>
VistaMare == <<"V", "i", "s", "t", "a", " ", "m", "a", "r", "e">>
Phrases ==
    { SenzaGiardino, VistaMare,
      <<"g", "i", "a", "r", "d", "i", "n", "o">>,
      <<"p", "i", "s", "c", "i", "n", "a", " ", "c", "o", "m", "u", "n", "a", "l", "e">>,
      <<"t", "e", "r", "r", "a", "z", "z", "o">>,
      <<"a", "l", " ", "p", "i", "a", "n", "o", " ", "3">>,
      <<"c", "l", "a", "s", "s", "e", " ", "e", "n", "e", "r", "g", "e", "t", "i", "c", "a", " ", "b">>,
      <<"c", "o", "s", "t", "r", "u", "i", "t", "o", " ", "n", "e", "l", " ", "1", "9", "9", "0">> }

RECURSIVE JoinPhrases(_)
JoinPhrases(ps) ==
    IF Len(ps) = 0 THEN << >>
    ELSE IF Len(ps) = 1 THEN ps[1]
    ELSE ps[1] \o <<",", " ">> \o JoinPhrases(Tail(ps))

\* The rows the SELECT returns have a description that is neither null
\* nor empty
Descriptions ==
    { Some(JoinPhrases(ps)) : ps \in SeqsUpTo(Phrases, MaxPhrases) \ {<< >>} }

\* Feature columns of a stored row: nothing known, or values entered before
UnknownFeatures == [key \in FeatureKeys |-> NULL]
KnownFeatures ==
    [ UnknownFeatures EXCEPT !["has_garden"] = Some(TRUE),
                             !["has_sea_view"] = Some(FALSE),
                             !["floor_number"] = Some(2),
                             !["year_built"] = Some(1975),
                             !["energy_class"] = Some(<<"A">>) ]
StoredFeatures == {UnknownFeatures, KnownFeatures}

\* One iteration of the loop of enrichProperties over the selected rows
EnrichSelect ==
    /\ enrichment.pc \in {"idle", "skipped", "updated", "wouldUpdate"}
    /\ \E description \in Descriptions, row \in StoredFeatures,
          dryRun \in BOOLEAN :
          enrichment' = [ pc |-> "selected", dryRun |-> dryRun,
                          description |-> description, stored |-> row ]
    /\ UNCHANGED <<properties, sources, now, call, registry, run, scraper>>

EnrichExtract ==
    /\ enrichment.pc = "selected"
    /\ \E extracted \in {extractFeaturesFromDescription(enrichment.description)} :
          enrichment' =
              ("extracted" :> extracted) @@ ("summary" :> getFeatureSummary(extracted))
                  @@ [enrichment EXCEPT !.pc = "extracted"]
    /\ UNCHANGED <<properties, sources, now, call, registry, run, scraper>>

EnrichUpdate ==
    /\ enrichment.pc = "extracted"
    /\ enrichment' =
          IF Len(enrichment.summary) = 0
          THEN [enrichment EXCEPT !.pc = "skipped"]
          ELSE IF enrichment.dryRun
          THEN [enrichment EXCEPT !.pc = "wouldUpdate"]
          ELSE [enrichment EXCEPT
                   !.pc = "updated",
                   !.stored = updatePropertyFeatures(enrichment.stored,
                                                     enrichment.extracted)]
    /\ UNCHANGED <<properties, sources, now, call, registry, run, scraper>>

\* Arguments of mergeFeatures: the flags, the numbers and the energy class
\* are each absent (existing only), null, falsy or truthy
FeaturesOf(modes) ==
    LET GroupOf(key) ==
            CASE key = "energy_class" -> "class"
              [] key \in {"floor_number", "year_built"} -> "number"
              [] OTHER -> "flag"
        ValueOf(key) ==
            CASE modes[GroupOf(key)] = "null" -> NULL
              [] modes[GroupOf(key)] = "low" ->
                    (CASE GroupOf(key) = "class" -> Some(<< >>)
                       [] GroupOf(key) = "number" -> Some(0)
                       [] OTHER -> Some(FALSE))
              [] modes[GroupOf(key)] = "high" ->
                    (CASE GroupOf(key) = "class" -> Some(<<"A">>)
                       [] GroupOf(key) = "number" -> Some(3)
                       [] OTHER -> Some(TRUE))
    IN  [key \in {k \in FeatureKeys : modes[GroupOf(k)] # "absent"} |->
            ValueOf(key)]
Groups == {"flag", "number", "class"}
ExistingInputs ==
    { FeaturesOf(modes) : modes \in [Groups -> {"absent", "null", "low", "high"}] }
ExtractedInputs ==
    { FeaturesOf(modes) : modes \in [Groups -> {"null", "low", "high"}] }

\* A call of mergeFeatures, and a second call that merges its result with
\* the same existing values
MergeFeatures ==
    /\ enrichment.pc = "idle"
    /\ \E existing \in ExistingInputs, extracted \in ExtractedInputs :
          enrichment' = [ pc |-> "merged", existing |-> existing,
                          extracted |-> extracted,
                          merged |-> mergeFeatures(existing, extracted) ]
    /\ UNCHANGED <<properties, sources, now, call, registry, run, scraper>>

MergeAgain ==
    /\ enrichment.pc = "merged"
    /\ enrichment' =
          ("again" :> mergeFeatures(enrichment.existing, enrichment.merged))
              @@ [enrichment EXCEPT !.pc = "mergedAgain"]
    /\ UNCHANGED <<properties, sources, now, call, registry, run, scraper>>

EnrichNext ==
    \/ EnrichSelect
    \/ EnrichExtract
    \/ EnrichUpdate
    \/ MergeFeatures
    \/ MergeAgain

EnrichSpec == Init /\ [][EnrichNext]_vars

----------------------------------------------------------------------------
(* scrapers/sources: the living area of a normalized listing *)

\* BaseScraper.parseNumeric: null for a null or empty text, else parseInt of
\* the trimmed text
RECURSIVE TrimStart(_)
TrimStart(text) ==
    IF Len(text) > 0 /\ text[1] \in WhiteSpace THEN TrimStart(Tail(text)) ELSE text

parseNumeric(text) ==
    IF text = NULL \/ Len(text[1]) = 0 THEN NULL ELSE parseInt(TrimStart(text[1]))

livingAreaPatterns ==
    << << Word(<<"s", "u", "p", "e", "r", "f", "i", "c", "i", "e">>) \o Spaces \o Word(<<"a", "b", "i", "t", "a", "b", "i", "l">>) \o <<Rep({"e", "i"}, 1, Some(1), FALSE)>> \o Spaces \o Word(<<"è">>) \o Spaces \o Word(<<"d", "i">>) \o Spaces \o Word(<<"c", "i", "r", "c", "a">>) \o Spaces \o <<Rep(DigitChars, 1, NULL, TRUE)>> \o OptSpaces \o Word(<<"m", "q">>),
          Word(<<"s", "u", "p", "e", "r", "f", "i", "c", "i", "e">>) \o Spaces \o Word(<<"a", "b", "i", "t", "a", "b", "i", "l">>) \o <<Rep({"e", "i"}, 1, Some(1), FALSE)>> \o Spaces \o Word(<<"è">>) \o Spaces \o Word(<<"d", "i">>) \o Spaces \o Word(<<"c", "i", "r", "c", "a">>) \o Spaces \o <<Rep(DigitChars, 1, NULL, TRUE)>> \o OptSpaces \o Word(<<"m", "²">>),
          Word(<<"s", "u", "p", "e", "r", "f", "i", "c", "i", "e">>) \o Spaces \o Word(<<"a", "b", "i", "t", "a", "b", "i", "l">>) \o <<Rep({"e", "i"}, 1, Some(1), FALSE)>> \o Spaces \o Word(<<"è">>) \o Spaces \o Word(<<"d", "i">>) \o Spaces \o Word(<<"c", "i", "r", "c", "a">>) \o Spaces \o <<Rep(DigitChars, 1, NULL, TRUE)>> \o OptSpaces \o Word(<<"m", "e", "t", "r", "i">>) \o OptSpaces \o Word(<<"q", "u", "a", "d", "r">>),
          Word(<<"s", "u", "p", "e", "r", "f", "i", "c", "i", "e">>) \o Spaces \o Word(<<"a", "b", "i", "t", "a", "b", "i", "l">>) \o <<Rep({"e", "i"}, 1, Some(1), FALSE)>> \o Spaces \o Word(<<"è">>) \o Spaces \o Word(<<"d", "i">>) \o Spaces \o <<Rep(DigitChars, 1, NULL, TRUE)>> \o OptSpaces \o Word(<<"m", "q">>),
          Word(<<"s", "u", "p", "e", "r", "f", "i", "c", "i", "e">>) \o Spaces \o Word(<<"a", "b", "i", "t", "a", "b", "i", "l">>) \o <<Rep({"e", "i"}, 1, Some(1), FALSE)>> \o Spaces \o Word(<<"è">>) \o Spaces \o Word(<<"d", "i">>) \o Spaces \o <<Rep(DigitChars, 1, NULL, TRUE)>> \o OptSpaces \o Word(<<"m", "²">>),
          Word(<<"s", "u", "p", "e", "r", "f", "i", "c", "i", "e">>) \o Spaces \o Word(<<"a", "b", "i", "t", "a", "b", "i", "l">>) \o <<Rep({"e", "i"}, 1, Some(1), FALSE)>> \o Spaces \o Word(<<"è">>) \o Spaces \o Word(<<"d", "i">>) \o Spaces \o <<Rep(DigitChars, 1, NULL, TRUE)>> \o OptSpaces \o Word(<<"m", "e", "t", "r", "i">>) \o OptSpaces \o Word(<<"q", "u", "a", "d", "r">>),
          Word(<<"s", "u", "p", "e", "r", "f", "i", "c", "i", "e">>) \o Spaces \o Word(<<"a", "b", "i", "t", "a", "b", "i", "l">>) \o <<Rep({"e", "i"}, 1, Some(1), FALSE)>> \o Spaces \o Word(<<"è">>) \o Spaces \o Word(<<"c", "i", "r", "c", "a">>) \o Spaces \o <<Rep(DigitChars, 1, NULL, TRUE)>> \o OptSpaces \o Word(<<"m", "q">>),
          Word(<<"s", "u", "p", "e", "r", "f", "i", "c", "i", "e">>) \o Spaces \o Word(<<"a", "b", "i", "t", "a", "b", "i", "l">>) \o <<Rep({"e", "i"}, 1, Some(1), FALSE)>> \o Spaces \o Word(<<"è">>) \o Spaces \o Word(<<"c", "i", "r", "c", "a">>) \o Spaces \o <<Rep(DigitChars, 1, NULL, TRUE)>> \o OptSpaces \o Word(<<"m", "²">>),
          Word(<<"s", "u", "p", "e", "r", "f", "i", "c", "i", "e">>) \o Spaces \o Word(<<"a", "b", "i", "t", "a", "b", "i", "l">>) \o <<Rep({"e", "i"}, 1, Some(1), FALSE)>> \o Spaces \o Word(<<"è">>) \o Spaces \o Word(<<"c", "i", "r", "c", "a">>) \o Spaces \o <<Rep(DigitChars, 1, NULL, TRUE)>> \o OptSpaces \o Word(<<"m", "e", "t", "r", "i">>) \o OptSpaces \o Word(<<"q", "u", "a", "d", "r">>),
          Word(<<"s", "u", "p", "e", "r", "f", "i", "c", "i", "e">>) \o Spaces \o Word(<<"a", "b", "i", "t", "a", "b", "i", "l">>) \o <<Rep({"e", "i"}, 1, Some(1), FALSE)>> \o Spaces \o Word(<<"è">>) \o Spaces \o <<Rep(DigitChars, 1, NULL, TRUE)>> \o OptSpaces \o Word(<<"m", "q">>),
          Word(<<"s", "u", "p", "e", "r", "f", "i", "c", "i", "e">>) \o Spaces \o Word(<<"a", "b", "i", "t", "a", "b", "i", "l">>) \o <<Rep({"e", "i"}, 1, Some(1), FALSE)>> \o Spaces \o Word(<<"è">>) \o Spaces \o <<Rep(DigitChars, 1, NULL, TRUE)>> \o OptSpaces \o Word(<<"m", "²">>),
          Word(<<"s", "u", "p", "e", "r", "f", "i", "c", "i", "e">>) \o Spaces \o Word(<<"a", "b", "i", "t", "a", "b", "i", "l">>) \o <<Rep({"e", "i"}, 1, Some(1), FALSE)>> \o Spaces \o Word(<<"è">>) \o Spaces \o <<Rep(DigitChars, 1, NULL, TRUE)>> \o OptSpaces \o Word(<<"m", "e", "t", "r", "i">>) \o OptSpaces \o Word(<<"q", "u", "a", "d", "r">>),
          Word(<<"s", "u", "p", "e", "r", "f", "i", "c", "i", "e">>) \o Spaces \o Word(<<"a", "b", "i", "t", "a", "b", "i", "l">>) \o <<Rep({"e", "i"}, 1, Some(1), FALSE)>> \o Spaces \o Word(<<"d", "i">>) \o Spaces \o Word(<<"c", "i", "r", "c", "a">>) \o Spaces \o <<Rep(DigitChars, 1, NULL, TRUE)>> \o OptSpaces \o Word(<<"m", "q">>),
          Word(<<"s", "u", "p", "e", "r", "f", "i", "c", "i", "e">>) \o Spaces \o Word(<<"a", "b", "i", "t", "a", "b", "i", "l">>) \o <<Rep({"e", "i"}, 1, Some(1), FALSE)>> \o Spaces \o Word(<<"d", "i">>) \o Spaces \o Word(<<"c", "i", "r", "c", "a">>) \o Spaces \o <<Rep(DigitChars, 1, NULL, TRUE)>> \o OptSpaces \o Word(<<"m", "²">>),
          Word(<<"s", "u", "p", "e", "r", "f", "i", "c", "i", "e">>) \o Spaces \o Word(<<"a", "b", "i", "t", "a", "b", "i", "l">>) \o <<Rep({"e", "i"}, 1, Some(1), FALSE)>> \o Spaces \o Word(<<"d", "i">>) \o Spaces \o Word(<<"c", "i", "r", "c", "a">>) \o Spaces \o <<Rep(DigitChars, 1, NULL, TRUE)>> \o OptSpaces \o Word(<<"m", "e", "t", "r", "i">>) \o OptSpaces \o Word(<<"q", "u", "a", "d", "r">>),
          Word(<<"s", "u", "p", "e", "r", "f", "i", "c", "i", "e">>) \o Spaces \o Word(<<"a", "b", "i", "t", "a", "b", "i", "l">>) \o <<Rep({"e", "i"}, 1, Some(1), FALSE)>> \o Spaces \o Word(<<"d", "i">>) \o Spaces \o <<Rep(DigitChars, 1, NULL, TRUE)>> \o OptSpaces \o Word(<<"m", "q">>),
          Word(<<"s", "u", "p", "e", "r", "f", "i", "c", "i", "e">>) \o Spaces \o Word(<<"a", "b", "i", "t", "a", "b", "i", "l">>) \o <<Rep({"e", "i"}, 1, Some(1), FALSE)>> \o Spaces \o Word(<<"d", "i">>) \o Spaces \o <<Rep(DigitChars, 1, NULL, TRUE)>> \o OptSpaces \o Word(<<"m", "²">>),
          Word(<<"s", "u", "p", "e", "r", "f", "i", "c", "i", "e">>) \o Spaces \o Word(<<"a", "b", "i", "t", "a", "b", "i", "l">>) \o <<Rep({"e", "i"}, 1, Some(1), FALSE)>> \o Spaces \o Word(<<"d", "i">>) \o Spaces \o <<Rep(DigitChars, 1, NULL, TRUE)>> \o OptSpaces \o Word(<<"m", "e", "t", "r", "i">>) \o OptSpaces \o Word(<<"q", "u", "a", "d", "r">>),
          Word(<<"s", "u", "p", "e", "r", "f", "i", "c", "i", "e">>) \o Spaces \o Word(<<"a", "b", "i", "t", "a", "b", "i", "l">>) \o <<Rep({"e", "i"}, 1, Some(1), FALSE)>> \o Spaces \o Word(<<"c", "i", "r", "c", "a">>) \o Spaces \o <<Rep(DigitChars, 1, NULL, TRUE)>> \o OptSpaces \o Word(<<"m", "q">>),
          Word(<<"s", "u", "p", "e", "r", "f", "i", "c", "i", "e">>) \o Spaces \o Word(<<"a", "b", "i", "t", "a", "b", "i", "l">>) \o <<Rep({"e", "i"}, 1, Some(1), FALSE)>> \o Spaces \o Word(<<"c", "i", "r", "c", "a">>) \o Spaces \o <<Rep(DigitChars, 1, NULL, TRUE)>> \o OptSpaces \o Word(<<"m", "²">>),
          Word(<<"s", "u", "p", "e", "r", "f", "i", "c", "i", "e">>) \o Spaces \o Word(<<"a", "b", "i", "t", "a", "b", "i", "l">>) \o <<Rep({"e", "i"}, 1, Some(1), FALSE)>> \o Spaces \o Word(<<"c", "i", "r", "c", "a">>) \o Spaces \o <<Rep(DigitChars, 1, NULL, TRUE)>> \o OptSpaces \o Word(<<"m", "e", "t", "r", "i">>) \o OptSpaces \o Word(<<"q", "u", "a", "d", "r">>),
          Word(<<"s", "u", "p", "e", "r", "f", "i", "c", "i", "e">>) \o Spaces \o Word(<<"a", "b", "i", "t", "a", "b", "i", "l">>) \o <<Rep({"e", "i"}, 1, Some(1), FALSE)>> \o Spaces \o <<Rep(DigitChars, 1, NULL, TRUE)>> \o OptSpaces \o Word(<<"m", "q">>),
          Word(<<"s", "u", "p", "e", "r", "f", "i", "c", "i", "e">>) \o Spaces \o Word(<<"a", "b", "i", "t", "a", "b", "i", "l">>) \o <<Rep({"e", "i"}, 1, Some(1), FALSE)>> \o Spaces \o <<Rep(DigitChars, 1, NULL, TRUE)>> \o OptSpaces \o Word(<<"m", "²">>),
          Word(<<"s", "u", "p", "e", "r", "f", "i", "c", "i", "e">>) \o Spaces \o Word(<<"a", "b", "i", "t", "a", "b", "i", "l">>) \o <<Rep({"e", "i"}, 1, Some(1), FALSE)>> \o Spaces \o <<Rep(DigitChars, 1, NULL, TRUE)>> \o OptSpaces \o Word(<<"m", "e", "t", "r", "i">>) \o OptSpaces \o Word(<<"q", "u", "a", "d", "r">>) >>,
       << <<Rep(DigitChars, 1, NULL, TRUE)>> \o OptSpaces \o Word(<<"m", "q">>) \o <<Rep({"i"}, 0, Some(1), FALSE)>> \o Spaces \o Word(<<"d", "i">>) \o Spaces \o Word(<<"s", "u", "p", "e", "r", "f", "i", "c", "i", "e">>) \o Spaces \o Word(<<"a", "b", "i", "t", "a", "b", "i", "l">>),
          <<Rep(DigitChars, 1, NULL, TRUE)>> \o OptSpaces \o Word(<<"m", "q">>) \o <<Rep({"i"}, 0, Some(1), FALSE)>> \o Spaces \o Word(<<"d", "i">>) \o Spaces \o Word(<<"a", "b", "i", "t", "a", "b", "i", "l">>),
          <<Rep(DigitChars, 1, NULL, TRUE)>> \o OptSpaces \o Word(<<"m", "q">>) \o <<Rep({"i"}, 0, Some(1), FALSE)>> \o Spaces \o Word(<<"s", "u", "p", "e", "r", "f", "i", "c", "i", "e">>) \o Spaces \o Word(<<"a", "b", "i", "t", "a", "b", "i", "l">>),
          <<Rep(DigitChars, 1, NULL, TRUE)>> \o OptSpaces \o Word(<<"m", "q">>) \o <<Rep({"i"}, 0, Some(1), FALSE)>> \o Spaces \o Word(<<"a", "b", "i", "t", "a", "b", "i", "l">>),
          <<Rep(DigitChars, 1, NULL, TRUE)>> \o OptSpaces \o Word(<<"m", "²">>) \o <<Rep({"i"}, 0, Some(1), FALSE)>> \o Spaces \o Word(<<"d", "i">>) \o Spaces \o Word(<<"s", "u", "p", "e", "r", "f", "i", "c", "i", "e">>) \o Spaces \o Word(<<"a", "b", "i", "t", "a", "b", "i", "l">>),
          <<Rep(DigitChars, 1, NULL, TRUE)>> \o OptSpaces \o Word(<<"m", "²">>) \o <<Rep({"i"}, 0, Some(1), FALSE)>> \o Spaces \o Word(<<"d", "i">>) \o Spaces \o Word(<<"a", "b", "i", "t", "a", "b", "i", "l">>),
          <<Rep(DigitChars, 1, NULL, TRUE)>> \o OptSpaces \o Word(<<"m", "²">>) \o <<Rep({"i"}, 0, Some(1), FALSE)>> \o Spaces \o Word(<<"s", "u", "p", "e", "r", "f", "i", "c", "i", "e">>) \o Spaces \o Word(<<"a", "b", "i", "t", "a", "b", "i", "l">>),
          <<Rep(DigitChars, 1, NULL, TRUE)>> \o OptSpaces \o Word(<<"m", "²">>) \o <<Rep({"i"}, 0, Some(1), FALSE)>> \o Spaces \o Word(<<"a", "b", "i", "t", "a", "b", "i", "l">>),
          <<Rep(DigitChars, 1, NULL, TRUE)>> \o OptSpaces \o Word(<<"m", "e", "t", "r", "i">>) \o OptSpaces \o Word(<<"q", "u", "a", "d", "r">>) \o <<Rep({"i"}, 0, Some(1), FALSE)>> \o Spaces \o Word(<<"d", "i">>) \o Spaces \o Word(<<"s", "u", "p", "e", "r", "f", "i", "c", "i", "e">>) \o Spaces \o Word(<<"a", "b", "i", "t", "a", "b", "i", "l">>),
          <<Rep(DigitChars, 1, NULL, TRUE)>> \o OptSpaces \o Word(<<"m", "e", "t", "r", "i">>) \o OptSpaces \o Word(<<"q", "u", "a", "d", "r">>) \o <<Rep({"i"}, 0, Some(1), FALSE)>> \o Spaces \o Word(<<"d", "i">>) \o Spaces \o Word(<<"a", "b", "i", "t", "a", "b", "i", "l">>),
          <<Rep(DigitChars, 1, NULL, TRUE)>> \o OptSpaces \o Word(<<"m", "e", "t", "r", "i">>) \o OptSpaces \o Word(<<"q", "u", "a", "d", "r">>) \o <<Rep({"i"}, 0, Some(1), FALSE)>> \o Spaces \o Word(<<"s", "u", "p", "e", "r", "f", "i", "c", "i", "e">>) \o Spaces \o Word(<<"a", "b", "i", "t", "a", "b", "i", "l">>),
          <<Rep(DigitChars, 1, NULL, TRUE)>> \o OptSpaces \o Word(<<"m", "e", "t", "r", "i">>) \o OptSpaces \o Word(<<"q", "u", "a", "d", "r">>) \o <<Rep({"i"}, 0, Some(1), FALSE)>> \o Spaces \o Word(<<"a", "b", "i", "t", "a", "b", "i", "l">>) >>,
       << Word(<<"s", "u", "p", "e", "r", "f", "i", "c", "i", "e">>) \o Spaces \o Word(<<"u", "t", "i", "l", "e">>) \o Spaces \o Word(<<"d", "i">>) \o Spaces \o Word(<<"c", "i", "r", "c", "a">>) \o Spaces \o <<Rep(DigitChars, 1, NULL, TRUE)>> \o OptSpaces \o Word(<<"m", "q">>),
          Word(<<"s", "u", "p", "e", "r", "f", "i", "c", "i", "e">>) \o Spaces \o Word(<<"u", "t", "i", "l", "e">>) \o Spaces \o Word(<<"d", "i">>) \o Spaces \o Word(<<"c", "i", "r", "c", "a">>) \o Spaces \o <<Rep(DigitChars, 1, NULL, TRUE)>> \o OptSpaces \o Word(<<"m", "²">>),
          Word(<<"s", "u", "p", "e", "r", "f", "i", "c", "i", "e">>) \o Spaces \o Word(<<"u", "t", "i", "l", "e">>) \o Spaces \o Word(<<"d", "i">>) \o Spaces \o Word(<<"c", "i", "r", "c", "a">>) \o Spaces \o <<Rep(DigitChars, 1, NULL, TRUE)>> \o OptSpaces \o Word(<<"m", "e", "t", "r", "i">>) \o OptSpaces \o Word(<<"q", "u", "a", "d", "r">>),
          Word(<<"s", "u", "p", "e", "r", "f", "i", "c", "i", "e">>) \o Spaces \o Word(<<"u", "t", "i", "l", "e">>) \o Spaces \o Word(<<"d", "i">>) \o Spaces \o <<Rep(DigitChars, 1, NULL, TRUE)>> \o OptSpaces \o Word(<<"m", "q">>),
          Word(<<"s", "u", "p", "e", "r", "f", "i", "c", "i", "e">>) \o Spaces \o Word(<<"u", "t", "i", "l", "e">>) \o Spaces \o Word(<<"d", "i">>) \o Spaces \o <<Rep(DigitChars, 1, NULL, TRUE)>> \o OptSpaces \o Word(<<"m", "²">>),
          Word(<<"s", "u", "p", "e", "r", "f", "i", "c", "i", "e">>) \o Spaces \o Word(<<"u", "t", "i", "l", "e">>) \o Spaces \o Word(<<"d", "i">>) \o Spaces \o <<Rep(DigitChars, 1, NULL, TRUE)>> \o OptSpaces \o Word(<<"m", "e", "t", "r", "i">>) \o OptSpaces \o Word(<<"q", "u", "a", "d", "r">>),
          Word(<<"s", "u", "p", "e", "r", "f", "i", "c", "i", "e">>) \o Spaces \o Word(<<"u", "t", "i", "l", "e">>) \o Spaces \o Word(<<"c", "i", "r", "c", "a">>) \o Spaces \o <<Rep(DigitChars, 1, NULL, TRUE)>> \o OptSpaces \o Word(<<"m", "q">>),
          Word(<<"s", "u", "p", "e", "r", "f", "i", "c", "i", "e">>) \o Spaces \o Word(<<"u", "t", "i", "l", "e">>) \o Spaces \o Word(<<"c", "i", "r", "c", "a">>) \o Spaces \o <<Rep(DigitChars, 1, NULL, TRUE)>> \o OptSpaces \o Word(<<"m", "²">>),
          Word(<<"s", "u", "p", "e", "r", "f", "i", "c", "i", "e">>) \o Spaces \o Word(<<"u", "t", "i", "l", "e">>) \o Spaces \o Word(<<"c", "i", "r", "c", "a">>) \o Spaces \o <<Rep(DigitChars, 1, NULL, TRUE)>> \o OptSpaces \o Word(<<"m", "e", "t", "r", "i">>) \o OptSpaces \o Word(<<"q", "u", "a", "d", "r">>),
          Word(<<"s", "u", "p", "e", "r", "f", "i", "c", "i", "e">>) \o Spaces \o Word(<<"u", "t", "i", "l", "e">>) \o Spaces \o <<Rep(DigitChars, 1, NULL, TRUE)>> \o OptSpaces \o Word(<<"m", "q">>),
          Word(<<"s", "u", "p", "e", "r", "f", "i", "c", "i", "e">>) \o Spaces \o Word(<<"u", "t", "i", "l", "e">>) \o Spaces \o <<Rep(DigitChars, 1, NULL, TRUE)>> \o OptSpaces \o Word(<<"m", "²">>),
          Word(<<"s", "u", "p", "e", "r", "f", "i", "c", "i", "e">>) \o Spaces \o Word(<<"u", "t", "i", "l", "e">>) \o Spaces \o <<Rep(DigitChars, 1, NULL, TRUE)>> \o OptSpaces \o Word(<<"m", "e", "t", "r", "i">>) \o OptSpaces \o Word(<<"q", "u", "a", "d", "r">>) >>,
       << Word(<<"s", "u", "p", "e", "r", "f", "i", "c", "i", "e">>) \o Spaces \o Word(<<"c", "a", "l", "p", "e", "s", "t", "a", "b", "i", "l">>) \o <<Rep({"e", "i"}, 1, Some(1), FALSE)>> \o Spaces \o Word(<<"d", "i">>) \o Spaces \o Word(<<"c", "i", "r", "c", "a">>) \o Spaces \o <<Rep(DigitChars, 1, NULL, TRUE)>> \o OptSpaces \o Word(<<"m", "q">>),
          Word(<<"s", "u", "p", "e", "r", "f", "i", "c", "i", "e">>) \o Spaces \o Word(<<"c", "a", "l", "p", "e", "s", "t", "a", "b", "i", "l">>) \o <<Rep({"e", "i"}, 1, Some(1), FALSE)>> \o Spaces \o Word(<<"d", "i">>) \o Spaces \o Word(<<"c", "i", "r", "c", "a">>) \o Spaces \o <<Rep(DigitChars, 1, NULL, TRUE)>> \o OptSpaces \o Word(<<"m", "²">>),
          Word(<<"s", "u", "p", "e", "r", "f", "i", "c", "i", "e">>) \o Spaces \o Word(<<"c", "a", "l", "p", "e", "s", "t", "a", "b", "i", "l">>) \o <<Rep({"e", "i"}, 1, Some(1), FALSE)>> \o Spaces \o Word(<<"d", "i">>) \o Spaces \o Word(<<"c", "i", "r", "c", "a">>) \o Spaces \o <<Rep(DigitChars, 1, NULL, TRUE)>> \o OptSpaces \o Word(<<"m", "e", "t", "r", "i">>) \o OptSpaces \o Word(<<"q", "u", "a", "d", "r">>),
          Word(<<"s", "u", "p", "e", "r", "f", "i", "c", "i", "e">>) \o Spaces \o Word(<<"c", "a", "l", "p", "e", "s", "t", "a", "b", "i", "l">>) \o <<Rep({"e", "i"}, 1, Some(1), FALSE)>> \o Spaces \o Word(<<"d", "i">>) \o Spaces \o <<Rep(DigitChars, 1, NULL, TRUE)>> \o OptSpaces \o Word(<<"m", "q">>),
          Word(<<"s", "u", "p", "e", "r", "f", "i", "c", "i", "e">>) \o Spaces \o Word(<<"c", "a", "l", "p", "e", "s", "t", "a", "b", "i", "l">>) \o <<Rep({"e", "i"}, 1, Some(1), FALSE)>> \o Spaces \o Word(<<"d", "i">>) \o Spaces \o <<Rep(DigitChars, 1, NULL, TRUE)>> \o OptSpaces \o Word(<<"m", "²">>),
          Word(<<"s", "u", "p", "e", "r", "f", "i", "c", "i", "e">>) \o Spaces \o Word(<<"c", "a", "l", "p", "e", "s", "t", "a", "b", "i", "l">>) \o <<Rep({"e", "i"}, 1, Some(1), FALSE)>> \o Spaces \o Word(<<"d", "i">>) \o Spaces \o <<Rep(DigitChars, 1, NULL, TRUE)>> \o OptSpaces \o Word(<<"m", "e", "t", "r", "i">>) \o OptSpaces \o Word(<<"q", "u", "a", "d", "r">>),
          Word(<<"s", "u", "p", "e", "r", "f", "i", "c", "i", "e">>) \o Spaces \o Word(<<"c", "a", "l", "p", "e", "s", "t", "a", "b", "i", "l">>) \o <<Rep({"e", "i"}, 1, Some(1), FALSE)>> \o Spaces \o Word(<<"c", "i", "r", "c", "a">>) \o Spaces \o <<Rep(DigitChars, 1, NULL, TRUE)>> \o OptSpaces \o Word(<<"m", "q">>),
          Word(<<"s", "u", "p", "e", "r", "f", "i", "c", "i", "e">>) \o Spaces \o Word(<<"c", "a", "l", "p", "e", "s", "t", "a", "b", "i", "l">>) \o <<Rep({"e", "i"}, 1, Some(1), FALSE)>> \o Spaces \o Word(<<"c", "i", "r", "c", "a">>) \o Spaces \o <<Rep(DigitChars, 1, NULL, TRUE)>> \o OptSpaces \o Word(<<"m", "²">>),
          Word(<<"s", "u", "p", "e", "r", "f", "i", "c", "i", "e">>) \o Spaces \o Word(<<"c", "a", "l", "p", "e", "s", "t", "a", "b", "i", "l">>) \o <<Rep({"e", "i"}, 1, Some(1), FALSE)>> \o Spaces \o Word(<<"c", "i", "r", "c", "a">>) \o Spaces \o <<Rep(DigitChars, 1, NULL, TRUE)>> \o OptSpaces \o Word(<<"m", "e", "t", "r", "i">>) \o OptSpaces \o Word(<<"q", "u", "a", "d", "r">>),
          Word(<<"s", "u", "p", "e", "r", "f", "i", "c", "i", "e">>) \o Spaces \o Word(<<"c", "a", "l", "p", "e", "s", "t", "a", "b", "i", "l">>) \o <<Rep({"e", "i"}, 1, Some(1), FALSE)>> \o Spaces \o <<Rep(DigitChars, 1, NULL, TRUE)>> \o OptSpaces \o Word(<<"m", "q">>),
          Word(<<"s", "u", "p", "e", "r", "f", "i", "c", "i", "e">>) \o Spaces \o Word(<<"c", "a", "l", "p", "e", "s", "t", "a", "b", "i", "l">>) \o <<Rep({"e", "i"}, 1, Some(1), FALSE)>> \o Spaces \o <<Rep(DigitChars, 1, NULL, TRUE)>> \o OptSpaces \o Word(<<"m", "²">>),
          Word(<<"s", "u", "p", "e", "r", "f", "i", "c", "i", "e">>) \o Spaces \o Word(<<"c", "a", "l", "p", "e", "s", "t", "a", "b", "i", "l">>) \o <<Rep({"e", "i"}, 1, Some(1), FALSE)>> \o Spaces \o <<Rep(DigitChars, 1, NULL, TRUE)>> \o OptSpaces \o Word(<<"m", "e", "t", "r", "i">>) \o OptSpaces \o Word(<<"q", "u", "a", "d", "r">>) >>,
       << Word(<<"p", "i", "a", "n", "o">>) \o Spaces \o Word(<<"a", "b", "i", "t", "a", "t", "i", "v", "o">>) \o Spaces \o Word(<<"d", "i">>) \o Spaces \o Word(<<"c", "i", "r", "c", "a">>) \o Spaces \o <<Rep(DigitChars, 1, NULL, TRUE)>> \o OptSpaces \o Word(<<"m", "q">>),
          Word(<<"p", "i", "a", "n", "o">>) \o Spaces \o Word(<<"a", "b", "i", "t", "a", "t", "i", "v", "o">>) \o Spaces \o Word(<<"d", "i">>) \o Spaces \o Word(<<"c", "i", "r", "c", "a">>) \o Spaces \o <<Rep(DigitChars, 1, NULL, TRUE)>> \o OptSpaces \o Word(<<"m", "²">>),
          Word(<<"p", "i", "a", "n", "o">>) \o Spaces \o Word(<<"a", "b", "i", "t", "a", "t", "i", "v", "o">>) \o Spaces \o Word(<<"d", "i">>) \o Spaces \o Word(<<"c", "i", "r", "c", "a">>) \o Spaces \o <<Rep(DigitChars, 1, NULL, TRUE)>> \o OptSpaces \o Word(<<"m", "e", "t", "r", "i">>) \o OptSpaces \o Word(<<"q", "u", "a", "d", "r">>),
          Word(<<"p", "i", "a", "n", "o">>) \o Spaces \o Word(<<"a", "b", "i", "t", "a", "t", "i", "v", "o">>) \o Spaces \o Word(<<"d", "i">>) \o Spaces \o <<Rep(DigitChars, 1, NULL, TRUE)>> \o OptSpaces \o Word(<<"m", "q">>),
          Word(<<"p", "i", "a", "n", "o">>) \o Spaces \o Word(<<"a", "b", "i", "t", "a", "t", "i", "v", "o">>) \o Spaces \o Word(<<"d", "i">>) \o Spaces \o <<Rep(DigitChars, 1, NULL, TRUE)>> \o OptSpaces \o Word(<<"m", "²">>),
          Word(<<"p", "i", "a", "n", "o">>) \o Spaces \o Word(<<"a", "b", "i", "t", "a", "t", "i", "v", "o">>) \o Spaces \o Word(<<"d", "i">>) \o Spaces \o <<Rep(DigitChars, 1, NULL, TRUE)>> \o OptSpaces \o Word(<<"m", "e", "t", "r", "i">>) \o OptSpaces \o Word(<<"q", "u", "a", "d", "r">>),
          Word(<<"p", "i", "a", "n", "o">>) \o Spaces \o Word(<<"a", "b", "i", "t", "a", "t", "i", "v", "o">>) \o Spaces \o Word(<<"c", "i", "r", "c", "a">>) \o Spaces \o <<Rep(DigitChars, 1, NULL, TRUE)>> \o OptSpaces \o Word(<<"m", "q">>),
          Word(<<"p", "i", "a", "n", "o">>) \o Spaces \o Word(<<"a", "b", "i", "t", "a", "t", "i", "v", "o">>) \o Spaces \o Word(<<"c", "i", "r", "c", "a">>) \o Spaces \o <<Rep(DigitChars, 1, NULL, TRUE)>> \o OptSpaces \o Word(<<"m", "²">>),
          Word(<<"p", "i", "a", "n", "o">>) \o Spaces \o Word(<<"a", "b", "i", "t", "a", "t", "i", "v", "o">>) \o Spaces \o Word(<<"c", "i", "r", "c", "a">>) \o Spaces \o <<Rep(DigitChars, 1, NULL, TRUE)>> \o OptSpaces \o Word(<<"m", "e", "t", "r", "i">>) \o OptSpaces \o Word(<<"q", "u", "a", "d", "r">>),
          Word(<<"p", "i", "a", "n", "o">>) \o Spaces \o Word(<<"a", "b", "i", "t", "a", "t", "i", "v", "o">>) \o Spaces \o <<Rep(DigitChars, 1, NULL, TRUE)>> \o OptSpaces \o Word(<<"m", "q">>),
          Word(<<"p", "i", "a", "n", "o">>) \o Spaces \o Word(<<"a", "b", "i", "t", "a", "t", "i", "v", "o">>) \o Spaces \o <<Rep(DigitChars, 1, NULL, TRUE)>> \o OptSpaces \o Word(<<"m", "²">>),
          Word(<<"p", "i", "a", "n", "o">>) \o Spaces \o Word(<<"a", "b", "i", "t", "a", "t", "i", "v", "o">>) \o Spaces \o <<Rep(DigitChars, 1, NULL, TRUE)>> \o OptSpaces \o Word(<<"m", "e", "t", "r", "i">>) \o OptSpaces \o Word(<<"q", "u", "a", "d", "r">>) >>,
       << Word(<<"l">>) \o <<Rep({"'"}, 0, Some(1), FALSE)>> \o Word(<<"a", "b", "i", "t", "a", "z", "i", "o", "n", "e">>) \o Spaces \o Word(<<"è">>) \o Spaces \o Word(<<"d", "i">>) \o Spaces \o Word(<<"c", "i", "r", "c", "a">>) \o Spaces \o <<Rep(DigitChars, 1, NULL, TRUE)>> \o OptSpaces \o Word(<<"m", "q">>),
          Word(<<"l">>) \o <<Rep({"'"}, 0, Some(1), FALSE)>> \o Word(<<"a", "b", "i", "t", "a", "z", "i", "o", "n", "e">>) \o Spaces \o Word(<<"è">>) \o Spaces \o Word(<<"d", "i">>) \o Spaces \o Word(<<"c", "i", "r", "c", "a">>) \o Spaces \o <<Rep(DigitChars, 1, NULL, TRUE)>> \o OptSpaces \o Word(<<"m", "²">>),
          Word(<<"l">>) \o <<Rep({"'"}, 0, Some(1), FALSE)>> \o Word(<<"a", "b", "i", "t", "a", "z", "i", "o", "n", "e">>) \o Spaces \o Word(<<"è">>) \o Spaces \o Word(<<"d", "i">>) \o Spaces \o Word(<<"c", "i", "r", "c", "a">>) \o Spaces \o <<Rep(DigitChars, 1, NULL, TRUE)>> \o OptSpaces \o Word(<<"m", "e", "t", "r", "i">>) \o OptSpaces \o Word(<<"q", "u", "a", "d", "r">>),
          Word(<<"l">>) \o <<Rep({"'"}, 0, Some(1), FALSE)>> \o Word(<<"a", "b", "i", "t", "a", "z", "i", "o", "n", "e">>) \o Spaces \o Word(<<"è">>) \o Spaces \o Word(<<"d", "i">>) \o Spaces \o <<Rep(DigitChars, 1, NULL, TRUE)>> \o OptSpaces \o Word(<<"m", "q">>),
          Word(<<"l">>) \o <<Rep({"'"}, 0, Some(1), FALSE)>> \o Word(<<"a", "b", "i", "t", "a", "z", "i", "o", "n", "e">>) \o Spaces \o Word(<<"è">>) \o Spaces \o Word(<<"d", "i">>) \o Spaces \o <<Rep(DigitChars, 1, NULL, TRUE)>> \o OptSpaces \o Word(<<"m", "²">>),
          Word(<<"l">>) \o <<Rep({"'"}, 0, Some(1), FALSE)>> \o Word(<<"a", "b", "i", "t", "a", "z", "i", "o", "n", "e">>) \o Spaces \o Word(<<"è">>) \o Spaces \o Word(<<"d", "i">>) \o Spaces \o <<Rep(DigitChars, 1, NULL, TRUE)>> \o OptSpaces \o Word(<<"m", "e", "t", "r", "i">>) \o OptSpaces \o Word(<<"q", "u", "a", "d", "r">>),
          Word(<<"l">>) \o <<Rep({"'"}, 0, Some(1), FALSE)>> \o Word(<<"a", "b", "i", "t", "a", "z", "i", "o", "n", "e">>) \o Spaces \o Word(<<"è">>) \o Spaces \o Word(<<"c", "i", "r", "c", "a">>) \o Spaces \o <<Rep(DigitChars, 1, NULL, TRUE)>> \o OptSpaces \o Word(<<"m", "q">>),
          Word(<<"l">>) \o <<Rep({"'"}, 0, Some(1), FALSE)>> \o Word(<<"a", "b", "i", "t", "a", "z", "i", "o", "n", "e">>) \o Spaces \o Word(<<"è">>) \o Spaces \o Word(<<"c", "i", "r", "c", "a">>) \o Spaces \o <<Rep(DigitChars, 1, NULL, TRUE)>> \o OptSpaces \o Word(<<"m", "²">>),
          Word(<<"l">>) \o <<Rep({"'"}, 0, Some(1), FALSE)>> \o Word(<<"a", "b", "i", "t", "a", "z", "i", "o", "n", "e">>) \o Spaces \o Word(<<"è">>) \o Spaces \o Word(<<"c", "i", "r", "c", "a">>) \o Spaces \o <<Rep(DigitChars, 1, NULL, TRUE)>> \o OptSpaces \o Word(<<"m", "e", "t", "r", "i">>) \o OptSpaces \o Word(<<"q", "u", "a", "d", "r">>),
          Word(<<"l">>) \o <<Rep({"'"}, 0, Some(1), FALSE)>> \o Word(<<"a", "b", "i", "t", "a", "z", "i", "o", "n", "e">>) \o Spaces \o Word(<<"è">>) \o Spaces \o <<Rep(DigitChars, 1, NULL, TRUE)>> \o OptSpaces \o Word(<<"m", "q">>),
          Word(<<"l">>) \o <<Rep({"'"}, 0, Some(1), FALSE)>> \o Word(<<"a", "b", "i", "t", "a", "z", "i", "o", "n", "e">>) \o Spaces \o Word(<<"è">>) \o Spaces \o <<Rep(DigitChars, 1, NULL, TRUE)>> \o OptSpaces \o Word(<<"m", "²">>),
          Word(<<"l">>) \o <<Rep({"'"}, 0, Some(1), FALSE)>> \o Word(<<"a", "b", "i", "t", "a", "z", "i", "o", "n", "e">>) \o Spaces \o Word(<<"è">>) \o Spaces \o <<Rep(DigitChars, 1, NULL, TRUE)>> \o OptSpaces \o Word(<<"m", "e", "t", "r", "i">>) \o OptSpaces \o Word(<<"q", "u", "a", "d", "r">>),
          Word(<<"l">>) \o <<Rep({"'"}, 0, Some(1), FALSE)>> \o Word(<<"a", "b", "i", "t", "a", "z", "i", "o", "n", "e">>) \o Spaces \o Word(<<"d", "i">>) \o Spaces \o Word(<<"c", "i", "r", "c", "a">>) \o Spaces \o <<Rep(DigitChars, 1, NULL, TRUE)>> \o OptSpaces \o Word(<<"m", "q">>),
          Word(<<"l">>) \o <<Rep({"'"}, 0, Some(1), FALSE)>> \o Word(<<"a", "b", "i", "t", "a", "z", "i", "o", "n", "e">>) \o Spaces \o Word(<<"d", "i">>) \o Spaces \o Word(<<"c", "i", "r", "c", "a">>) \o Spaces \o <<Rep(DigitChars, 1, NULL, TRUE)>> \o OptSpaces \o Word(<<"m", "²">>),
          Word(<<"l">>) \o <<Rep({"'"}, 0, Some(1), FALSE)>> \o Word(<<"a", "b", "i", "t", "a", "z", "i", "o", "n", "e">>) \o Spaces \o Word(<<"d", "i">>) \o Spaces \o Word(<<"c", "i", "r", "c", "a">>) \o Spaces \o <<Rep(DigitChars, 1, NULL, TRUE)>> \o OptSpaces \o Word(<<"m", "e", "t", "r", "i">>) \o OptSpaces \o Word(<<"q", "u", "a", "d", "r">>),
          Word(<<"l">>) \o <<Rep({"'"}, 0, Some(1), FALSE)>> \o Word(<<"a", "b", "i", "t", "a", "z", "i", "o", "n", "e">>) \o Spaces \o Word(<<"d", "i">>) \o Spaces \o <<Rep(DigitChars, 1, NULL, TRUE)>> \o OptSpaces \o Word(<<"m", "q">>),
          Word(<<"l">>) \o <<Rep({"'"}, 0, Some(1), FALSE)>> \o Word(<<"a", "b", "i", "t", "a", "z", "i", "o", "n", "e">>) \o Spaces \o Word(<<"d", "i">>) \o Spaces \o <<Rep(DigitChars, 1, NULL, TRUE)>> \o OptSpaces \o Word(<<"m", "²">>),
          Word(<<"l">>) \o <<Rep({"'"}, 0, Some(1), FALSE)>> \o Word(<<"a", "b", "i", "t", "a", "z", "i", "o", "n", "e">>) \o Spaces \o Word(<<"d", "i">>) \o Spaces \o <<Rep(DigitChars, 1, NULL, TRUE)>> \o OptSpaces \o Word(<<"m", "e", "t", "r", "i">>) \o OptSpaces \o Word(<<"q", "u", "a", "d", "r">>),
          Word(<<"l">>) \o <<Rep({"'"}, 0, Some(1), FALSE)>> \o Word(<<"a", "b", "i", "t", "a", "z", "i", "o", "n", "e">>) \o Spaces \o Word(<<"c", "i", "r", "c", "a">>) \o Spaces \o <<Rep(DigitChars, 1, NULL, TRUE)>> \o OptSpaces \o Word(<<"m", "q">>),
          Word(<<"l">>) \o <<Rep({"'"}, 0, Some(1), FALSE)>> \o Word(<<"a", "b", "i", "t", "a", "z", "i", "o", "n", "e">>) \o Spaces \o Word(<<"c", "i", "r", "c", "a">>) \o Spaces \o <<Rep(DigitChars, 1, NULL, TRUE)>> \o OptSpaces \o Word(<<"m", "²">>),
          Word(<<"l">>) \o <<Rep({"'"}, 0, Some(1), FALSE)>> \o Word(<<"a", "b", "i", "t", "a", "z", "i", "o", "n", "e">>) \o Spaces \o Word(<<"c", "i", "r", "c", "a">>) \o Spaces \o <<Rep(DigitChars, 1, NULL, TRUE)>> \o OptSpaces \o Word(<<"m", "e", "t", "r", "i">>) \o OptSpaces \o Word(<<"q", "u", "a", "d", "r">>),
          Word(<<"l">>) \o <<Rep({"'"}, 0, Some(1), FALSE)>> \o Word(<<"a", "b", "i", "t", "a", "z", "i", "o", "n", "e">>) \o Spaces \o <<Rep(DigitChars, 1, NULL, TRUE)>> \o OptSpaces \o Word(<<"m", "q">>),
          Word(<<"l">>) \o <<Rep({"'"}, 0, Some(1), FALSE)>> \o Word(<<"a", "b", "i", "t", "a", "z", "i", "o", "n", "e">>) \o Spaces \o <<Rep(DigitChars, 1, NULL, TRUE)>> \o OptSpaces \o Word(<<"m", "²">>),
          Word(<<"l">>) \o <<Rep({"'"}, 0, Some(1), FALSE)>> \o Word(<<"a", "b", "i", "t", "a", "z", "i", "o", "n", "e">>) \o Spaces \o <<Rep(DigitChars, 1, NULL, TRUE)>> \o OptSpaces \o Word(<<"m", "e", "t", "r", "i">>) \o OptSpaces \o Word(<<"q", "u", "a", "d", "r">>) >>,
       << Word(<<"s", "p", "a", "z", "i">>) \o Spaces \o Word(<<"i", "n", "t", "e", "r", "n", "i">>) \o Spaces \o Word(<<"d", "i">>) \o Spaces \o Word(<<"c", "i", "r", "c", "a">>) \o Spaces \o <<Rep(DigitChars, 1, NULL, TRUE)>> \o OptSpaces \o Word(<<"m", "q">>),
          Word(<<"s", "p", "a", "z", "i">>) \o Spaces \o Word(<<"i", "n", "t", "e", "r", "n", "i">>) \o Spaces \o Word(<<"d", "i">>) \o Spaces \o Word(<<"c", "i", "r", "c", "a">>) \o Spaces \o <<Rep(DigitChars, 1, NULL, TRUE)>> \o OptSpaces \o Word(<<"m", "²">>),
          Word(<<"s", "p", "a", "z", "i">>) \o Spaces \o Word(<<"i", "n", "t", "e", "r", "n", "i">>) \o Spaces \o Word(<<"d", "i">>) \o Spaces \o Word(<<"c", "i", "r", "c", "a">>) \o Spaces \o <<Rep(DigitChars, 1, NULL, TRUE)>> \o OptSpaces \o Word(<<"m", "e", "t", "r", "i">>) \o OptSpaces \o Word(<<"q", "u", "a", "d", "r">>),
          Word(<<"s", "p", "a", "z", "i">>) \o Spaces \o Word(<<"i", "n", "t", "e", "r", "n", "i">>) \o Spaces \o Word(<<"d", "i">>) \o Spaces \o <<Rep(DigitChars, 1, NULL, TRUE)>> \o OptSpaces \o Word(<<"m", "q">>),
          Word(<<"s", "p", "a", "z", "i">>) \o Spaces \o Word(<<"i", "n", "t", "e", "r", "n", "i">>) \o Spaces \o Word(<<"d", "i">>) \o Spaces \o <<Rep(DigitChars, 1, NULL, TRUE)>> \o OptSpaces \o Word(<<"m", "²">>),
          Word(<<"s", "p", "a", "z", "i">>) \o Spaces \o Word(<<"i", "n", "t", "e", "r", "n", "i">>) \o Spaces \o Word(<<"d", "i">>) \o Spaces \o <<Rep(DigitChars, 1, NULL, TRUE)>> \o OptSpaces \o Word(<<"m", "e", "t", "r", "i">>) \o OptSpaces \o Word(<<"q", "u", "a", "d", "r">>),
          Word(<<"s", "p", "a", "z", "i">>) \o Spaces \o Word(<<"i", "n", "t", "e", "r", "n", "i">>) \o Spaces \o Word(<<"c", "i", "r", "c", "a">>) \o Spaces \o <<Rep(DigitChars, 1, NULL, TRUE)>> \o OptSpaces \o Word(<<"m", "q">>),
          Word(<<"s", "p", "a", "z", "i">>) \o Spaces \o Word(<<"i", "n", "t", "e", "r", "n", "i">>) \o Spaces \o Word(<<"c", "i", "r", "c", "a">>) \o Spaces \o <<Rep(DigitChars, 1, NULL, TRUE)>> \o OptSpaces \o Word(<<"m", "²">>),
          Word(<<"s", "p", "a", "z", "i">>) \o Spaces \o Word(<<"i", "n", "t", "e", "r", "n", "i">>) \o Spaces \o Word(<<"c", "i", "r", "c", "a">>) \o Spaces \o <<Rep(DigitChars, 1, NULL, TRUE)>> \o OptSpaces \o Word(<<"m", "e", "t", "r", "i">>) \o OptSpaces \o Word(<<"q", "u", "a", "d", "r">>),
          Word(<<"s", "p", "a", "z", "i">>) \o Spaces \o Word(<<"i", "n", "t", "e", "r", "n", "i">>) \o Spaces \o <<Rep(DigitChars, 1, NULL, TRUE)>> \o OptSpaces \o Word(<<"m", "q">>),
          Word(<<"s", "p", "a", "z", "i">>) \o Spaces \o Word(<<"i", "n", "t", "e", "r", "n", "i">>) \o Spaces \o <<Rep(DigitChars, 1, NULL, TRUE)>> \o OptSpaces \o Word(<<"m", "²">>),
          Word(<<"s", "p", "a", "z", "i">>) \o Spaces \o Word(<<"i", "n", "t", "e", "r", "n", "i">>) \o Spaces \o <<Rep(DigitChars, 1, NULL, TRUE)>> \o OptSpaces \o Word(<<"m", "e", "t", "r", "i">>) \o OptSpaces \o Word(<<"q", "u", "a", "d", "r">>),
          Word(<<"i", "n", "t", "e", "r", "n", "i">>) \o Spaces \o Word(<<"d", "i">>) \o Spaces \o Word(<<"c", "i", "r", "c", "a">>) \o Spaces \o <<Rep(DigitChars, 1, NULL, TRUE)>> \o OptSpaces \o Word(<<"m", "q">>),
          Word(<<"i", "n", "t", "e", "r", "n", "i">>) \o Spaces \o Word(<<"d", "i">>) \o Spaces \o Word(<<"c", "i", "r", "c", "a">>) \o Spaces \o <<Rep(DigitChars, 1, NULL, TRUE)>> \o OptSpaces \o Word(<<"m", "²">>),
          Word(<<"i", "n", "t", "e", "r", "n", "i">>) \o Spaces \o Word(<<"d", "i">>) \o Spaces \o Word(<<"c", "i", "r", "c", "a">>) \o Spaces \o <<Rep(DigitChars, 1, NULL, TRUE)>> \o OptSpaces \o Word(<<"m", "e", "t", "r", "i">>) \o OptSpaces \o Word(<<"q", "u", "a", "d", "r">>),
          Word(<<"i", "n", "t", "e", "r", "n", "i">>) \o Spaces \o Word(<<"d", "i">>) \o Spaces \o <<Rep(DigitChars, 1, NULL, TRUE)>> \o OptSpaces \o Word(<<"m", "q">>),
          Word(<<"i", "n", "t", "e", "r", "n", "i">>) \o Spaces \o Word(<<"d", "i">>) \o Spaces \o <<Rep(DigitChars, 1, NULL, TRUE)>> \o OptSpaces \o Word(<<"m", "²">>),
          Word(<<"i", "n", "t", "e", "r", "n", "i">>) \o Spaces \o Word(<<"d", "i">>) \o Spaces \o <<Rep(DigitChars, 1, NULL, TRUE)>> \o OptSpaces \o Word(<<"m", "e", "t", "r", "i">>) \o OptSpaces \o Word(<<"q", "u", "a", "d", "r">>),
          Word(<<"i", "n", "t", "e", "r", "n", "i">>) \o Spaces \o Word(<<"c", "i", "r", "c", "a">>) \o Spaces \o <<Rep(DigitChars, 1, NULL, TRUE)>> \o OptSpaces \o Word(<<"m", "q">>),
          Word(<<"i", "n", "t", "e", "r", "n", "i">>) \o Spaces \o Word(<<"c", "i", "r", "c", "a">>) \o Spaces \o <<Rep(DigitChars, 1, NULL, TRUE)>> \o OptSpaces \o Word(<<"m", "²">>),
          Word(<<"i", "n", "t", "e", "r", "n", "i">>) \o Spaces \o Word(<<"c", "i", "r", "c", "a">>) \o Spaces \o <<Rep(DigitChars, 1, NULL, TRUE)>> \o OptSpaces \o Word(<<"m", "e", "t", "r", "i">>) \o OptSpaces \o Word(<<"q", "u", "a", "d", "r">>),
          Word(<<"i", "n", "t", "e", "r", "n", "i">>) \o Spaces \o <<Rep(DigitChars, 1, NULL, TRUE)>> \o OptSpaces \o Word(<<"m", "q">>),
          Word(<<"i", "n", "t", "e", "r", "n", "i">>) \o Spaces \o <<Rep(DigitChars, 1, NULL, TRUE)>> \o OptSpaces \o Word(<<"m", "²">>),
          Word(<<"i", "n", "t", "e", "r", "n", "i">>) \o Spaces \o <<Rep(DigitChars, 1, NULL, TRUE)>> \o OptSpaces \o Word(<<"m", "e", "t", "r", "i">>) \o OptSpaces \o Word(<<"q", "u", "a", "d", "r">>) >>,
       << Word(<<"z", "o", "n", "a">>) \o Spaces \o Word(<<"g", "i", "o", "r", "n", "o">>) \o <<Atom({"."}, TRUE, 0, NULL, TRUE, FALSE)>> \o Spaces \o <<Rep(DigitChars, 1, NULL, TRUE)>> \o OptSpaces \o Word(<<"m", "q">>),
          Word(<<"z", "o", "n", "a">>) \o Spaces \o Word(<<"g", "i", "o", "r", "n", "o">>) \o <<Atom({"."}, TRUE, 0, NULL, TRUE, FALSE)>> \o Spaces \o <<Rep(DigitChars, 1, NULL, TRUE)>> \o OptSpaces \o Word(<<"m", "²">>),
          Word(<<"z", "o", "n", "a">>) \o Spaces \o Word(<<"n", "o", "t", "t", "e">>) \o <<Atom({"."}, TRUE, 0, NULL, TRUE, FALSE)>> \o Spaces \o <<Rep(DigitChars, 1, NULL, TRUE)>> \o OptSpaces \o Word(<<"m", "q">>),
          Word(<<"z", "o", "n", "a">>) \o Spaces \o Word(<<"n", "o", "t", "t", "e">>) \o <<Atom({"."}, TRUE, 0, NULL, TRUE, FALSE)>> \o Spaces \o <<Rep(DigitChars, 1, NULL, TRUE)>> \o OptSpaces \o Word(<<"m", "²">>),
          Word(<<"z", "o", "n", "a">>) \o Spaces \o Word(<<"l", "i", "v", "i", "n", "g">>) \o <<Atom({"."}, TRUE, 0, NULL, TRUE, FALSE)>> \o Spaces \o <<Rep(DigitChars, 1, NULL, TRUE)>> \o OptSpaces \o Word(<<"m", "q">>),
          Word(<<"z", "o", "n", "a">>) \o Spaces \o Word(<<"l", "i", "v", "i", "n", "g">>) \o <<Atom({"."}, TRUE, 0, NULL, TRUE, FALSE)>> \o Spaces \o <<Rep(DigitChars, 1, NULL, TRUE)>> \o OptSpaces \o Word(<<"m", "²">>) >> >>

\* The loop over livingAreaPatterns: the first pattern whose figure lies
\* between 10 and 1000
RECURSIVE AreaFrom(_, _)
AreaFrom(text, k) ==
    IF k > Len(livingAreaPatterns)
    THEN NULL
    ELSE LET match == Match(livingAreaPatterns[k], text)
             area == parseInt(match[1])
         IN  IF match # NULL /\ area[1] >= 10 /\ area[1] <= 1000
             THEN area
             ELSE AreaFrom(text, k + 1)

\* BaseScraper.extractLivingAreaFromDescription
extractLivingAreaFromDescription(description) ==
    IF description = NULL \/ Len(description[1]) = 0
    THEN NULL
    ELSE AreaFrom(toLowerCase(description[1]), 1)

\* The strategies whose normalization consults the description: Casa Amola
\* and Professione Immobiliare (`livingAreaFromDesc ?? listedArea`).  The
\* paginated strategy stores parseNumeric(raw.sqmText) and Gesticasa the
\* figure of the detail page's area field.
DescriptionAreaStrategies == {CasaAmolaStrategy.id, ProfessioneStrategy.id}

\* living_area_sqm of the listing the strategy emits
LivingAreaOf(strategy, sqmText, description) ==
    LET listedArea == parseNumeric(sqmText)
        livingAreaFromDesc == extractLivingAreaFromDescription(description)
    IN  IF strategy.id \in DescriptionAreaStrategies /\ livingAreaFromDesc # NULL
        THEN livingAreaFromDesc
        ELSE listedArea

\* Advertised area texts of an index card or detail page
AreaTexts == { NULL, Some(<<"1", "8", "0">>), Some(<<" ", "9", "5">>) }

\* Phrases of a listing's full description
AreaPhrases ==
    { <<"S", "u", "p", "e", "r", "f", "i", "c", "i", "e", " ", "a", "b", "i", "t", "a", "b", "i", "l", "e", " ", "d", "i", " ", "1", "3", "0", " ", "m", "q">>,
      <<"1", "2", "0", " ", "m", "q", " ", "a", "b", "i", "t", "a", "b", "i", "l", "i">>,
      <<"s", "u", "p", "e", "r", "f", "i", "c", "i", "e", " ", "u", "t", "i", "l", "e", " ", "c", "i", "r", "c", "a", " ", "5", " ", "m", "q">>,
      <<"z", "o", "n", "a", " ", "g", "i", "o", "r", "n", "o", " ", "c", "o", "n", " ", "c", "a", "m", "i", "n", "o", " ", "4", "0", " ", "m", "q">>,
      <<"v", "i", "l", "l", "a", " ", "d", "i", " ", "1", "8", "0", " ", "m", "q">>,
      <<"g", "i", "a", "r", "d", "i", "n", "o">> }

FullDescriptions ==
    {NULL} \cup { Some(JoinPhrases(ps)) : ps \in SeqsUpTo(AreaPhrases, MaxPhrases) }

\* One listing reaches the normalization of one strategy
NormalizeBegin ==
    \E strategy \in Strategies, sqmText \in AreaTexts,
       description \in FullDescriptions :
        /\ call' = [ op |-> "normalizeListing", status |-> "requested",
                     strategy |-> strategy, sqmText |-> sqmText,
                     description |-> description ]
        /\ UNCHANGED <<properties, sources, now, registry, run, scraper,
                       enrichment>>

\* The normalization of the listing
NormalizeListing ==
    /\ call.op = "normalizeListing" /\ call.status = "requested"
    /\ \E fromDesc \in { extractLivingAreaFromDescription(call.description) } :
           call' = [ op |-> "normalizeListing", status |-> "returned",
                     strategy |-> call.strategy, sqmText |-> call.sqmText,
                     description |-> call.description,
                     livingAreaFromDesc |-> fromDesc,
                     living_area_sqm |->
                         LivingAreaOf(call.strategy, call.sqmText,
                                      call.description) ]
    /\ UNCHANGED <<properties, sources, now, registry, run, scraper,
                   enrichment>>

NormalizeNext ==
    \/ NormalizeBegin
    \/ NormalizeListing

NormalizeSpec == Init /\ [][NormalizeNext]_vars

----------------------------------------------------------------------------
(* Properties of the ingestion engine *)

IngestReturned == call.op = "ingestProperties" /\ call.status = "returned"

IngestLoopOver ==
    /\ call.op = "ingestProperties" /\ call.status = "running"
    /\ call.i > Len(call.properties)

\* C1: when ingestProperties is run twice in succession with an identical
\* batch and no row fails, the second run leaves the number of stored rows
\* as the first run left it, and reports every row as updated, none as new.
C1_Idempotent ==
    (IngestReturned /\ call.round = 2 /\ call.result.errors = 0)
        => /\ Rows(properties) = call.rowsBefore
           /\ call.result.newListings = 0
           /\ call.result.updatedListings = call.result.totalScraped

\* A second run of a two-listing batch has returned
C1_Witness ==
    /\ IngestReturned /\ call.round = 2 /\ call.result.errors = 0
    /\ call.result.totalScraped = 2
    /\ call.result.updatedListings = 2

\* The fields the claim says are merged
MergedFields ==
    { "address", "bedrooms", "bathrooms", "living_area_sqm", "description_it",
      "description_en", "sale_status", "has_garden", "has_terrace",
      "has_balcony", "has_parking", "has_garage", "source_updated_at" }

\* C2: for every stored field other than price and images, once a row holds
\* a non-null value, ingesting a listing of the same URL that carries null
\* for the field does not change the stored value.
C2_MergeKeepsNonNull ==
    [][ (call.op = "ingestProperties" /\ call.status = "running"
         /\ call.i <= Len(call.properties))
        => LET x == call.properties[call.i]
               u == x.listing_url
           IN  u \in DOMAIN properties
               => \A f \in MergedFields :
                    (properties[u][f] # NULL /\ x[f] = NULL)
                        => properties'[u][f] = properties[u][f] ]_vars

PairOf(row) == <<row.source_id, row.region_id>>

\* C3: removeStaleListings(sourceId, regionId, scrapedUrls) archives, at the
\* current time, exactly the non-archived rows of that source+region whose
\* URL is not in scrapedUrls, returns how many they are, and leaves every
\* other row as it was (so the rows of the pair that were scraped stay
\* active).
C3_ArchivesExactlyStale ==
    [][ \A s \in SourceIds, r \in RegionIds, scraped \in SUBSET Urls :
          (call'.op = "removeStaleListings" /\ RemoveStaleListingsCall(s, r, scraped))
          => /\ DOMAIN properties' = DOMAIN properties
             /\ \A u \in DOMAIN properties :
                  IF /\ PairOf(properties[u]) = <<s, r>>
                     /\ ~properties[u].is_archived
                     /\ u \notin scraped
                  THEN properties'[u] =
                          [properties[u] EXCEPT !.is_archived = TRUE,
                                                !.archived_at = Some(now)]
                  ELSE properties'[u] = properties[u]
             /\ call'.count =
                  Cardinality({ u \in DOMAIN properties :
                                  ~properties[u].is_archived
                                  /\ properties'[u].is_archived }) ]_vars

\* One row of a pair has just been archived while another row of the same
\* pair stayed active
C3_Witness ==
    /\ call.op = "removeStaleListings" /\ call.count = 1
    /\ \E u, v \in DOMAIN properties :
         /\ PairOf(properties[u]) = PairOf(properties[v])
         /\ properties[u].is_archived /\ properties[u].archived_at = Some(now)
         /\ ~properties[v].is_archived

\* C4: removeStaleListings for one source+region never changes the archived
\* flag or archived timestamp of a row whose source or region differs.
C4_ScopedToPair ==
    [][ \A s \in SourceIds, r \in RegionIds, scraped \in SUBSET Urls :
          (call'.op = "removeStaleListings" /\ RemoveStaleListingsCall(s, r, scraped))
          => \A u \in DOMAIN properties :
               (properties[u].source_id # s \/ properties[u].region_id # r)
               => /\ u \in DOMAIN properties'
                  /\ properties'[u].is_archived = properties[u].is_archived
                  /\ properties'[u].archived_at = properties[u].archived_at ]_vars

\* A row has just been archived while a row of another pair, of the same
\* source or not, is active
C4_Witness ==
    /\ call.op = "removeStaleListings" /\ call.count = 1
    /\ \E u, v \in DOMAIN properties :
         /\ PairOf(properties[u]) # PairOf(properties[v])
         /\ properties[u].is_archived /\ properties[u].archived_at = Some(now)
         /\ ~properties[v].is_archived

\* C5: once ingestProperties has written a batch, no listing of the batch is
\* archived: re-ingesting an archived listing clears its archived flag.
C5_ReingestRestores ==
    (IngestLoopOver /\ call.result.errors = 0)
        => \A k \in 1..Len(call.properties) :
             ~properties[call.properties[k].listing_url].is_archived

\* C13: when ingestProperties writes a listing whose URL is already stored,
\* the stored price and image list become the listing's, and the stored
\* last_seen_at becomes the current time, not earlier than it was.
C13_PriceImagesSeenOverwritten ==
    [][ (call.op = "ingestProperties" /\ call.status = "running"
         /\ call.i <= Len(call.properties)
         /\ call'.status = "running"
         /\ call'.result.updatedListings = call.result.updatedListings + 1)
        => LET x == call.properties[call.i]
               u == x.listing_url
           IN  /\ u \in DOMAIN properties
               /\ properties'[u].price_eur = x.price_eur
               /\ properties'[u].image_urls = x.image_urls
               /\ properties'[u].last_seen_at = now
               /\ properties'[u].last_seen_at >= properties[u].last_seen_at ]_vars

\* A listing stored at 179000 with two images has just been written again,
\* at a later time, at 150000 without images
C13_Witness ==
    /\ call.op = "ingestProperties" /\ call.status = "running"
    /\ call.i = 2 /\ call.result.updatedListings = 1
    /\ LET x == call.properties[1]
           row == properties[x.listing_url]
       IN  /\ x.price_eur = 150000
           /\ row.price_eur = 150000 /\ row.image_urls = <<>>
           /\ row.address # NULL
           /\ row.last_seen_at = 1 /\ now = 1

\* C14: a failure while one listing is processed does not stop the batch:
\* every call of ingestProperties ends by returning a result in which
\* newListings + updatedListings + errors = totalScraped = the batch length.
C14_BatchAlwaysCounted ==
    (call.op = "ingestProperties" /\ call.status # "running")
        => /\ call.status = "returned"
           /\ call.result.newListings + call.result.updatedListings
                + call.result.errors = call.result.totalScraped

\* C15: restoreArchivedListing(url) on an archived listing clears the
\* archived flag and timestamp, leaves everything else, and returns true; on
\* a non-archived or unknown URL it changes nothing and returns false.
C15_RestoreReversesArchival ==
    [][ \A u \in Urls :
          (call'.op = "restoreArchivedListing" /\ RestoreArchivedListingCall(u))
          => IF u \in DOMAIN properties /\ properties[u].is_archived
             THEN /\ call'.restored = TRUE
                  /\ properties' =
                        [properties EXCEPT
                           ![u] = [@ EXCEPT !.is_archived = FALSE,
                                            !.archived_at = NULL]]
             ELSE /\ call'.restored = FALSE
                  /\ properties' = properties ]_vars

\* An archived listing has just been restored
C15_Witness ==
    /\ call.op = "restoreArchivedListing" /\ call.restored = TRUE
    /\ \E u \in DOMAIN properties :
         /\ ~properties[u].is_archived /\ properties[u].archived_at = NULL
         /\ properties[u].last_seen_at < now

\* C27: after any sequence of listing upserts (the writes ingestProperties
\* makes, one per listing), removeStaleListings and restoreArchivedListing
\* calls, every stored row has a non-null archived_at exactly when its
\* is_archived is true.
C27_ArchiveColumnsAgree ==
    \A u \in DOMAIN properties :
        (properties[u].archived_at # NULL) <=> (properties[u].is_archived = TRUE)

\* A listing has just been restored while another one, ingested again after
\* its archival, is still archived
C27_Witness ==
    /\ call.op = "restoreArchivedListing" /\ call.restored
    /\ \E u, v \in DOMAIN properties :
           /\ properties[u].is_archived /\ properties[u].archived_at # NULL
           /\ properties[u].last_seen_at > properties[u].archived_at[1]
           /\ ~properties[v].is_archived /\ properties[v].archived_at = NULL

\* C29: removeStaleListings never archives a listing created through the
\* admin portal (URL admin://<sourceId>/<timestamp>), whatever the scraped
\* URLs are: the listing stays among the rows of its source's dashboard.
C29_AdminListingsNeverArchived ==
    \A u \in DOMAIN properties \cap AdminUrls :
        u \in getPropertiesBySource(properties, properties[u].source_id)

\* C30: no step of ingestProperties changes the source, region, city or
\* property type of a listing that is already stored; a listing ingested
\* again under another source+region keeps the attribution of its first
\* insertion.
C30_AttributionKept ==
    [][\A u \in DOMAIN properties :
          /\ u \in DOMAIN properties'
          /\ properties'[u].source_id = properties[u].source_id
          /\ properties'[u].region_id = properties[u].region_id
          /\ properties'[u].city = properties[u].city
          /\ properties'[u].property_type = properties[u].property_type]_vars

\* The first listing of the batch was stored already, under another source
\* and region, and has just been counted as updated
C30_Witness ==
    /\ call.op = "ingestProperties" /\ call.status = "running"
    /\ call.i = 2 /\ call.result.updatedListings = 1
    /\ LET property == call.properties[1]
       IN  /\ property.listing_url \in DOMAIN properties
           /\ properties[property.listing_url].source_id # property.source_id
           /\ properties[property.listing_url].region_id # property.region_id
           /\ properties[property.listing_url].city # property.city
           /\ properties[property.listing_url].property_type
                  # property.property_type
           /\ properties[property.listing_url].price_eur = property.price_eur

----------------------------------------------------------------------------
(* Properties of the run orchestrator *)

UnitDone == run.pc # "idle" /\ run.last # NoUnit

\* C6: after a non-dry run has processed a unit whose scrape succeeded, every
\* listing of that source+region that was stored and active before and is
\* absent from the fresh scrape is archived, and none is deleted.
C6_StaleArchivedByRun ==
    (UnitDone /\ ~run.opts.dryRun /\ run.last.indexOk)
        => \A u \in run.last.activeBefore :
             /\ u \in DOMAIN properties
             /\ u \notin run.last.scrapedUrls
                  => /\ properties[u].is_archived
                     /\ properties[u].archived_at # NULL

\* C7: runIngestion never aborts on a failing unit: it never rejects, every
\* failure that reaches it is counted in the summary's errors, and when it
\* returns it has gone through every source it resolved.
C7_RunNeverAborts ==
    /\ run.pc # "failed"
    /\ run.pc \in {"source", "region", "done"}
         => run.stats.totalErrors >= run.unitFailures
    /\ run.pc = "done"
         => run.stats.totalSources = Len(run.sourcesToRun)

\* C8: a dry run writes nothing: no step of it changes the stored sources or
\* the stored properties.
C8_DryRunWritesNothing ==
    [][ (run.pc \in {"source", "region"} /\ run.opts.dryRun)
        => (sources' = sources /\ properties' = properties) ]_vars

\* C9: a unit whose index page could not be fetched yields no listing and
\* is recorded with an error, so the summary reports errors.
C9_IndexFailureRecorded ==
    (UnitDone /\ ~run.last.indexOk)
        => /\ run.last.properties = 0
           /\ run.last.errors >= 1
           /\ run.stats.totalErrors >= 1

\* Source ids selected explicitly that the configuration registry lacks
UnknownSources ==
    { k \in 1..Len(run.opts.sources) : run.opts.sources[k] \notin DOMAIN registry }

\* C10: every unit naming an unknown source or an unknown region is recorded
\* as an error in the summary of the run, which goes on to its end.
C10_UnknownUnitsRecorded ==
    run.pc = "done"
        => run.stats.totalErrors >= Cardinality(UnknownSources) + run.unknownRegions

\* C11: when a CLI entry point exits, its exit status is non-zero if the run
\* threw or the summary it obtained counts at least one error; so it is zero
\* only for a summary without errors.
C11_ExitCodeReflectsErrors ==
    run.pc = "exited"
        => /\ (run.threw \/ run.stats.totalErrors > 0) => run.exitCode # 0
           /\ run.exitCode = 0 => (~run.threw /\ run.stats.totalErrors = 0)

\* A run returned a summary with errors and the process exited with status 1
C11_Witness ==
    /\ run.pc = "exited" /\ ~run.threw
    /\ run.stats.totalErrors > 0 /\ run.exitCode = 1

\* C16: in a run where every fetch succeeds, stats.totalPropertiesScraped is
\* the number of raw listings with a usable price, summed over the units;
\* skipped listings and index pages without listings add no error: unless a
\* storage operation failed, the only errors are the unknown regions.
C16_DropsAreNotErrors ==
    (run.pc = "done" /\ ~run.fetchFailed)
        => /\ run.stats.totalPropertiesScraped = run.passed
           /\ ~run.storageFailed => run.stats.totalErrors = run.unknownRegions

\* A run whose only unit collected three raw listings, one of them without
\* a usable price, ended with two listings scraped and no error
C16_Witness ==
    /\ run.pc = "done" /\ ~run.fetchFailed /\ ~run.storageFailed
    /\ run.dropped /\ run.results = 1
    /\ run.stats.totalPropertiesScraped = 2
    /\ run.stats.totalErrors = 0

\* C28: getOrCreateSource never leaves two source records with the same
\* name, two runs working at the same time included.
C28_OneRecordPerSourceName ==
    \A j, k \in 1..Len(sources) :
        sources[j].name = sources[k].name => j = k

----------------------------------------------------------------------------
(* Properties of the extraction strategies *)

\* C12: a scrape executed by a run with a page override never fetches more
\* index pages than the override.
C12_PageOverrideRespected ==
    (scraper.pc # "idle" /\ scraper.override # NULL)
        => scraper.indexFetches <= scraper.override[1]

\* C20: every listing a scrape returns has a price of at least the
\* data-quality floor of 1000 euros.
C20_PriceFloor ==
    scraper.pc = "done"
        => \A k \in 1..Len(scraper.properties) :
             scraper.properties[k].price_eur >= 1000

\* C21: a listing whose detail page fetch failed is still in the scrape
\* result, with the index thumbnail (when there is one) as its image list.
C21_DetailFailureKeepsListing ==
    scraper.pc \in {"normalize", "done"} =>
        \A k \in 1..Len(scraper.raw) :
            scraper.raw[k].url \in scraper.failedDetails =>
                \E n \in 1..Len(scraper.properties) :
                    /\ scraper.properties[n].listing_url = scraper.raw[k].url
                    /\ scraper.properties[n].image_urls =
                           ImageUrlsOf(scraper.raw[k], "failed")

\* C22: within one scrape every page fetch after the first starts after a
\* delay() that completed since the previous page fetch ended.
C22_DelayBeforeEveryFetch ==
    scraper.pc # "idle" => ~scraper.undelayed

\* C23: of two listings emitted by one Vittori scrape, the one scraped
\* later has a strictly earlier sourceUpdatedAt.
C23_OrderedTimestamps ==
    (scraper.pc # "idle" /\ scraper.strategy = VittoriStrategy) =>
        \A a, b \in 1..Len(scraper.properties) :
            a < b => scraper.properties[b].source_updated_at[1]
                        < scraper.properties[a].source_updated_at[1]

\* C24: a paginated scrape fetches at most the configured page cap of index
\* pages, and no index page after an index page without listings, page 1
\* included.
C24_StopsAtCapOrEmptyPage ==
    [][ (scraper'.pc # "idle" /\ scraper'.strategy.paginated) =>
            /\ scraper'.indexFetches <= scraper'.strategy.maxPages
            /\ (scraper.pc = "pages" /\ scraper.emptyPage) =>
                   scraper'.indexFetches = scraper.indexFetches ]_vars

\* C25: fetchPage follows one level of redirect only: one call requests at
\* most two URLs, the one given and the target of the first redirect.
C25_OneRedirectLevel ==
    call.op = "fetchPage" => Len(call.chain) <= 2

\* C26: for every strategy, when the listing advertises an area and the
\* extractor accepts a habitable area stated in the description, the
\* listing's living area is the description's figure; the advertised area
\* is used only when the extractor returns null.
C26_DescriptionAreaPreferred ==
    (call.op = "normalizeListing" /\ call.status = "returned"
        /\ call.sqmText # NULL /\ call.livingAreaFromDesc # NULL)
        => call.living_area_sqm = call.livingAreaFromDesc

----------------------------------------------------------------------------
(* Properties of the feature enrichment *)

\* C17: the standalone enrichment pass never replaces a stored non-null
\* feature value (amenity flag, floor number, year built, energy class) of
\* the row it processes; it only fills feature columns that are null.
C17_EnrichmentFillsOnlyNulls ==
    [][ enrichment.pc = "extracted" =>
            \A key \in FeatureKeys :
                enrichment.stored[key] # NULL =>
                    enrichment'.stored[key] = enrichment.stored[key] ]_vars

\* C18: extractFeaturesFromDescription resolves each of the 13 boolean
\* amenities from its own patterns only: false if a negative pattern of the
\* amenity matches the lowercased text, otherwise true if a positive one
\* matches, otherwise null; "senza giardino, Vista mare" gives
\* has_garden = false and has_sea_view = true.
C18_AmenitiesResolvedIndependently ==
    enrichment.pc = "extracted" =>
        LET text == toLowerCase(enrichment.description[1])
            Hit(regexes) == \E r \in DOMAIN regexes : Test(regexes[r], text)
        IN  /\ \A b \in DOMAIN BooleanKeys :
                  enrichment.extracted[BooleanKeys[b]] =
                      IF Hit(FEATURE_PATTERNS[BooleanKeys[b]].negative)
                      THEN Some(FALSE)
                      ELSE IF Hit(FEATURE_PATTERNS[BooleanKeys[b]].positive)
                      THEN Some(TRUE)
                      ELSE NULL
            /\ enrichment.description
                   = Some(JoinPhrases(<<SenzaGiardino, VistaMare>>)) =>
                  /\ enrichment.extracted["has_garden"] = Some(FALSE)
                  /\ enrichment.extracted["has_sea_view"] = Some(TRUE)

C18_Witness ==
    /\ enrichment.pc = "extracted"
    /\ enrichment.description = Some(JoinPhrases(<<SenzaGiardino, VistaMare>>))
    /\ enrichment.extracted["has_garden"] = Some(FALSE)
    /\ enrichment.extracted["has_sea_view"] = Some(TRUE)
    /\ enrichment.extracted["has_pool"] = NULL

\* C19: mergeFeatures(existing, extracted) has all 16 feature keys, each
\* with the existing value when that is present and not null and with the
\* extracted value otherwise; merging the result with the same existing
\* values again gives the same result.
C19_ExistingValueWins ==
    /\ enrichment.pc \in {"merged", "mergedAgain"} =>
          /\ DOMAIN enrichment.merged = FeatureKeys
          /\ Cardinality(FeatureKeys) = 16
          /\ \A key \in FeatureKeys :
                enrichment.merged[key] =
                    IF /\ key \in DOMAIN enrichment.existing
                       /\ enrichment.existing[key] # NULL
                    THEN enrichment.existing[key]
                    ELSE enrichment.extracted[key]
    /\ enrichment.pc = "mergedAgain" => enrichment.again = enrichment.merged

C19_Witness ==
    /\ enrichment.pc = "mergedAgain"
    /\ "has_garden" \in DOMAIN enrichment.existing
    /\ enrichment.existing["has_garden"] = Some(FALSE)
    /\ enrichment.extracted["has_garden"] = Some(TRUE)
    /\ "floor_number" \notin DOMAIN enrichment.existing
    /\ enrichment.extracted["floor_number"] = Some(3)
    /\ "energy_class" \in DOMAIN enrichment.existing
    /\ enrichment.existing["energy_class"] = NULL
    /\ enrichment.extracted["energy_class"] = Some(<<"A">>)
    /\ enrichment.again["has_garden"] = Some(FALSE)
    /\ enrichment.again["floor_number"] = Some(3)
====
